---- MODULE Spec2Model ----
(***************************************************************************)
(* A model of the XTV reader (xtvReader.py, xdrfile.py): the catalog the   *)
(* constructor builds from the header, the time index, the byte stream     *)
(* with its cursor, the channel-identifier resolver and the query          *)
(* operations.                                                             *)
(*                                                                         *)
(* Conventions.                                                            *)
(*   - A Python string is a sequence of one-character strings, so that     *)
(*     rpartition, the regular expression, startswith and endswith are     *)
(*     computed character by character.                                    *)
(*   - A float is an exact rational <<n, d>> in lowest terms with d > 0;   *)
(*     rounding of IEEE arithmetic is not modelled.                        *)
(*   - Python 2 orders None below every number; None is the integer PyNone *)
(*     that is below every index the model uses.                           *)
(*   - An operation returns a record [kind, val, seeks]: kind is "value"   *)
(*     or the name of the error raised, seeks the absolute positions the   *)
(*     operation seeked to, in order.                                      *)
(***************************************************************************)
EXTENDS Integers, Sequences, FiniteSets, TLC

VARIABLES
  components,   \* self.components: the component table, in header order
  SB,           \* self.SB: the starting block (dataStart, dataLen, nPoints)
  times,        \* self.times: the time index
  xtvFile,      \* the bytes of the file: byte offset of a 4-byte word -> value
  pos,          \* the cursor of self.up (FileUnpacker)
  opened,       \* self.opened
  call,         \* the operation last called and its arguments
  result        \* what that operation returned or raised

vars == <<components, SB, times, xtvFile, pos, opened, call, result>>
header == <<components, SB, times, xtvFile, opened>>

----------------------------------------------------------------------------
(* Bounds of the model *)

\* the largest number of time records in a file
MaxPoints == 3
\* the longest generated channel identifier
MaxIdLen == 4

----------------------------------------------------------------------------
(* Python values *)

PyNone == -1000

\* name = v, then the statements Body that read name: v is computed once
Assign(v, Body(_)) == CHOOSE r \in {Body(x) : x \in {v}} : TRUE

NoType == "<None>"

Abs(x) == IF x < 0 THEN -x ELSE x

RECURSIVE GCD(_, _)
GCD(a, b) == IF b = 0 THEN a ELSE GCD(b, a % b)

\* the rational n/d in lowest terms (d # 0)
Rat(n, d) ==
  LET g == GCD(Abs(n), Abs(d))
      s == IF d < 0 THEN -1 ELSE 1
  IN  <<(s * n) \div g, (s * d) \div g>>

F(v) == <<v, 1>>
RAdd(a, b) == Rat(a[1] * b[2] + b[1] * a[2], a[2] * b[2])
RSub(a, b) == Rat(a[1] * b[2] - b[1] * a[2], a[2] * b[2])
RMulInt(a, k) == Rat(a[1] * k, a[2])
RDivInt(a, k) == Rat(a[1], a[2] * k)

\* str.startswith / str.endswith with a one-character argument
startswith(s, c) == Len(s) > 0 /\ s[1] = c
endswith(s, c) == Len(s) > 0 /\ s[Len(s)] = c

\* bisect.bisect_right(a, x)
RECURSIVE bisect_loop(_, _, _, _)
bisect_loop(a, x, lo, hi) ==
  IF lo < hi
    THEN LET mid == (lo + hi) \div 2
         IN  IF x < a[mid + 1]
               THEN bisect_loop(a, x, lo, mid)
               ELSE bisect_loop(a, x, mid + 1, hi)
    ELSE lo

bisect_right(a, x) == bisect_loop(a, x, 0, Len(a))

----------------------------------------------------------------------------
(* Strings of the catalog, as character sequences *)

s_pn == <<"p", "n">>
s_vlnxr == <<"v", "l", "n", "x", "r">>
s_vlnyt == <<"v", "l", "n", "y", "t">>
s_vlnz == <<"v", "l", "n", "z">>
s_vln == <<"v", "l", "n">>
s_qout == <<"q", "o", "u", "t">>
s_rftn == <<"r", "f", "t", "n">>
s_zht == <<"z", "h", "t">>
s_tsurfi == <<"t", "s", "u", "r", "f", "i">>
s_tsurfo == <<"t", "s", "u", "r", "f", "o">>

d_0D == <<"0", "D">>
d_1dFa == <<"1", "d", "F", "a">>
d_1dCc == <<"1", "d", "C", "c">>
d_2dFaJ == <<"2", "d", "F", "a", "J">>
d_3dCc == <<"3", "d", "C", "c">>
d_3dFaI == <<"3", "d", "F", "a", "I">>
d_3dFaJ == <<"3", "d", "F", "a", "J">>
d_3dFaK == <<"3", "d", "F", "a", "K">>

\* _fineMeshVars, restricted to the names the catalog declares
fineMeshVars == {s_rftn, s_zht}

----------------------------------------------------------------------------
(* The header of the file: what the block loop of __init__ leaves behind *)

\* templates[0] of every component
NoTemplate == [name |-> "None"]

\* _Template after a GD3D / GD2D / GD1D block and its array block
Template3D(cs, ni, nj, nk, fk) ==
  [name |-> "GD3D", dimi |-> ni, dimj |-> nj, dimk |-> nk, coordSys |-> cs,
   fI |-> <<>>, fJ |-> <<>>, fK |-> fk]
Template2D(cs, ni, nj, fj) ==
  [name |-> "GD2D", dimi |-> ni, dimj |-> nj, dimk |-> 0, coordSys |-> cs,
   fI |-> <<>>, fJ |-> fj, fK |-> <<>>]
Template1D(n, fi) ==
  [name |-> "GD1D", dimi |-> n, dimj |-> 0, dimk |-> 0, coordSys |-> "",
   fI |-> fi, fJ |-> <<>>, fK |-> <<>>]

\* the GCHd blocks of the header, in file order, each with the templates that
\* its geometry blocks append
CompDecls ==
  << [number |-> 500, compType |-> "vessel",
      templates |-> <<NoTemplate, Template3D("CYL3D", 2, 2, 2, <<0, 2, 4>>)>>],
     [number |-> 510, compType |-> "vessel",
      templates |-> <<NoTemplate, Template3D("CART3D", 2, 2, 2, <<0, 2, 4>>)>>],
     [number |-> 55, compType |-> "pipe",
      templates |-> <<NoTemplate, Template1D(3, <<0, 2, 4, 6>>)>>],
     [number |-> 140, compType |-> "htstr",
      templates |-> <<NoTemplate, Template1D(3, <<0, 2, 4, 6>>)>>],
     [number |-> 140, compType |-> "htstrc",
      templates |-> <<NoTemplate, Template2D("CYLRZ", 2, 2, <<0, 2, 4>>)>>] >>

VarDecl(n, ct, nm, dp, len) ==
  [number |-> n, compType |-> ct, name |-> nm, dimPosAt |-> dp,
   freqAt |-> "TD", vTmpl |-> 1, vLength |-> len]

\* the VARD blocks of the header, in file order
VarDecls ==
  << VarDecl(500, "vessel", s_pn, d_3dCc, 8),
     VarDecl(500, "vessel", s_vlnxr, d_3dFaI, 12),
     VarDecl(500, "vessel", s_vlnyt, d_3dFaJ, 8),
     VarDecl(500, "vessel", s_vlnz, d_3dFaK, 12),
     VarDecl(510, "vessel", s_vlnyt, d_3dFaJ, 12),
     VarDecl(55, "pipe", s_pn, d_1dCc, 3),
     VarDecl(55, "pipe", s_vln, d_1dFa, 4),
     VarDecl(55, "pipe", s_qout, d_0D, 1),
     VarDecl(140, "htstr", s_tsurfi, d_1dFa, 3),
     VarDecl(140, "htstr", s_tsurfo, d_1dFa, 3),
     VarDecl(140, "htstrc", s_rftn, d_2dFaJ, 6),
     VarDecl(140, "htstrc", s_zht, d_1dFa, 3),
     VarDecl(140, "htstrc", s_tsurfo, d_1dFa, 3) >>

\* recordLength when the n-th VARD block is read: 24 bytes of record header
\* plus 4 bytes per element of every time-dependent variable declared before
RECURSIVE recordLength(_)
recordLength(n) ==
  IF n <= 1
    THEN 24
    ELSE recordLength(n - 1)
           + (IF VarDecls[n - 1].freqAt = "TD" THEN VarDecls[n - 1].vLength * 4 ELSE 0)

\* _Channel as the VARD branch fills it
Channel(n) ==
  [name |-> VarDecls[n].name, startIncrement |-> recordLength(n),
   dimPosAt |-> VarDecls[n].dimPosAt, freqAt |-> VarDecls[n].freqAt,
   vTmpl |-> VarDecls[n].vTmpl, vLength |-> VarDecls[n].vLength]

\* the channels dictionary of a component: a later declaration of a name
\* replaces an earlier one
ChannelsOf(c) ==
  LET mine == {n \in 1..Len(VarDecls) :
                 VarDecls[n].number = c.number /\ VarDecls[n].compType = c.compType}
      names == {VarDecls[n].name : n \in mine}
      last(nm) == CHOOSE n \in mine :
                    /\ VarDecls[n].name = nm
                    /\ \A m \in mine : VarDecls[m].name = nm => m <= n
  IN  [nm \in names |-> Channel(last(nm))]

\* _Component after the header is read
Component(n) ==
  [number |-> CompDecls[n].number, compType |-> CompDecls[n].compType,
   templates |-> CompDecls[n].templates, channels |-> ChannelsOf(CompDecls[n]),
   sidelegs |-> <<>>, dynAxes |-> <<>>]

ParsedComponents == [n \in 1..Len(CompDecls) |-> Component(n)]

\* the record length the header declares, which a well-formed file also
\* carries in the starting block as dataLen
DataLen == recordLength(Len(VarDecls) + 1)

----------------------------------------------------------------------------
(* The data region of the file *)

\* the fine-mesh axial array of the htstrc component stored in record r
\* (0-based) of a file of pattern zp; -1 marks the unused trailing slots
ZhtArray(zp, r) ==
  CASE zp = 1 -> <<0, 2, -1>>
    [] zp = 2 -> IF r % 2 = 0 THEN <<0, 2, -1>> ELSE <<0, 4, -1>>
    [] zp = 3 -> IF r % 2 = 0 THEN <<0, 4, -1>> ELSE <<0, 2, 4>>
    [] OTHER -> <<0, -1, -1>>

ZhtPatterns == 1..4

\* the in-record byte offset of the zht channel of the htstrc component
ZhtStart == ParsedComponents[5].channels[s_zht].startIncrement

\* a file with the time index ts and fine-mesh pattern zp: the header region
\* before dataStart, then Len(ts) records of DataLen bytes, each with its time
\* at byte 20 and every payload word distinct
MkFile(ds, ts, zp) ==
  [p \in {4 * w : w \in 0..((ds + Len(ts) * DataLen) \div 4 - 1)} |->
     IF p < ds
       THEN -5
       ELSE LET r == (p - ds) \div DataLen
                b == (p - ds) % DataLen
            IN  IF b = 20 THEN ts[r + 1]
                ELSE IF b < 24 THEN 0
                ELSE IF b >= ZhtStart /\ b < ZhtStart + 12
                  THEN ZhtArray(zp, r)[(b - ZhtStart) \div 4 + 1]
                ELSE 1000 * (r + 1) * (r + 1) + b]

\* the time values a record may carry
TimeVals == {-2, 0, 2}

\* non-decreasing time indexes of 1..MaxPoints records
TimeSeqs ==
  UNION {{ts \in [1..n -> TimeVals] : \A a \in 1..(n - 1) : ts[a] <= ts[a + 1]}
           : n \in 1..MaxPoints}

----------------------------------------------------------------------------
(* Results of operations *)

Value(v, sk) == [kind |-> "value", val |-> v, seeks |-> sk]
Raise(e, sk) == [kind |-> e, val |-> PyNone, seeks |-> sk]

\* one set_position(p) followed by n 4-byte decodes
Seek(p, n) == [at |-> p, n |-> n]

\* the cursor after the seeks and decodes sk, starting from cursor p0: a seek
\* to a negative offset fails and moves nothing, a decode at or past the end
\* of the file reads nothing
RECURSIVE Advance(_, _)
Advance(p, n) ==
  IF n = 0 \/ p \notin DOMAIN xtvFile THEN p ELSE Advance(p + 4, n - 1)

CursorAfter(p0, sk) ==
  IF sk = <<>> \/ sk[Len(sk)].at < 0 THEN p0
  ELSE Advance(sk[Len(sk)].at, sk[Len(sk)].n)

\* FileUnpacker.set_position(p) then unpack_float(): the word at p, or the
\* error of the seek or of the short read
unpack_float_at(p) ==
  IF p < 0 THEN Raise("IOError", <<Seek(p, 0)>>)
  ELSE IF p \notin DOMAIN xtvFile THEN Raise("EOFError", <<Seek(p, 1)>>)
  ELSE Value(xtvFile[p], <<Seek(p, 1)>>)

----------------------------------------------------------------------------
(* Channel lookup *)

\* str.strip(), for blanks
RECURSIVE lstrip(_)
lstrip(s) == IF s # <<>> /\ Head(s) = " " THEN lstrip(Tail(s)) ELSE s
RECURSIVE rstrip(_)
rstrip(s) ==
  IF s # <<>> /\ s[Len(s)] = " " THEN rstrip(SubSeq(s, 1, Len(s) - 1)) ELSE s
strip(s) == lstrip(rstrip(s))

NoComp == [number |-> PyNone, compType |-> NoType]

\* self.components.get((id, compType))
compGet(id, compType) ==
  LET hits == {n \in DOMAIN components :
                 components[n].number = id /\ components[n].compType = compType}
  IN  IF hits = {} THEN NoComp ELSE components[CHOOSE n \in hits : TRUE]

\* comp.channels.get(name) is not None
hasChannel(comp, name) == comp # NoComp /\ name \in DOMAIN comp.channels

\* __getCompType without the test of the variable name
getCompType_FirstOfId(compID, varName) ==
  LET hits == {n \in DOMAIN components : components[n].number = compID}
  IN  IF hits = {} THEN NoType
      ELSE components[CHOOSE n \in hits : \A m \in hits : n <= m].compType

\* __getCompType: the type of the first component, in table order, that has
\* the number compID and a channel named varName; NoType when there is none
getCompType(compID, varName) ==
  LET hits == {n \in DOMAIN components :
                 components[n].number = compID /\ varName \in DOMAIN components[n].channels}
  IN  IF hits = {} THEN NoType
      ELSE components[CHOOSE n \in hits : \A m \in hits : n <= m].compType

\* __getDimPosAt
getDimPosAt(id, compType, varName) ==
  LET comp == compGet(id, compType)
  IN  IF hasChannel(comp, strip(varName))
        THEN Value(strip(comp.channels[strip(varName)].dimPosAt), <<>>)
        ELSE Raise("INVALID_CHANNEL1", <<>>)

\* a mesh index that counts as supplied on an axis: "xr > 0", with None
\* below every number
supplied_Nonzero(x) == x # PyNone /\ x # 0

supplied(x) == x > 0

\* __transform_indices
transform_indices(id, compType, varName, xr, yt, z) ==
  LET dp == getDimPosAt(id, compType, varName)
      dimPosAt == dp.val
  IN  IF dp.kind # "value" THEN dp
      ELSE IF startswith(dimPosAt, "3") THEN Value(<<xr, yt, z>>, <<>>)
      ELSE IF startswith(dimPosAt, "2")
        THEN IF supplied(yt) THEN Raise("ERR_YT_INDEX", <<>>)
             ELSE Value(<<xr, z, 0>>, <<>>)
      ELSE IF startswith(dimPosAt, "1")
        THEN IF supplied(yt) \/ supplied(xr) THEN Raise("ERR_XRYT_INDEX", <<>>)
             ELSE Value(<<z, 0, 0>>, <<>>)
      ELSE IF startswith(dimPosAt, "0")
        THEN IF supplied(yt) \/ supplied(xr) \/ supplied(z)
               THEN Raise("ERR_AXRYT_INDEX", <<>>)
               ELSE Value(<<0, 0, 0>>, <<>>)
      ELSE Raise("ValueError", <<>>)

\* __interpolate with the weights of the two ordinates exchanged
interpolate_Swapped(x1, y1, x2, y2, x) ==
  RAdd(RDivInt(RMulInt(RSub(y2, y1), x2 - x), x2 - x1), y1)

\* __interpolate, on abscissas x1, x2, x (numbers) and ordinates y1, y2 (floats)
interpolate(x1, y1, x2, y2, x) ==
  RAdd(RDivInt(RMulInt(RSub(y2, y1), x - x1), x2 - x1), y1)

----------------------------------------------------------------------------
(* getData *)

\* the 3D cell index with the theta index varying fastest
mesh3D_ThetaFirst(dimPosAt, coordSystem, vLength, dimi, dimj, dimk, i, j, k) ==
  LET M(di, dj, dk, levdim, rowlen) ==
        IF di = 0 \/ dj = 0 \/ dk = 0
          THEN [kind |-> "ZeroDivisionError"]
          ELSE [kind |-> "value",
                nmesh_i |-> vLength \div di, nmesh_j |-> vLength \div dj,
                nmesh_k |-> vLength \div dk,
                cell |-> (k - 1) * levdim + (i - 1) * (levdim \div rowlen) + j]
  IN  IF endswith(dimPosAt, "I")
        THEN M(dimj * dimk, (dimi + 1) * dimk, (dimi + 1) * dimj,
               (dimi + 1) * dimj, dimi + 1)
      ELSE IF endswith(dimPosAt, "J")
        THEN IF coordSystem = "CYL3D"
               THEN M(dimj * dimk, dimi * dimk, dimi * dimj, dimi * dimj, dimi)
               ELSE M((dimj + 1) * dimk, dimi * dimk, dimi * (dimj + 1),
                      dimi * (dimj + 1), dimi)
      ELSE IF endswith(dimPosAt, "K")
        THEN M(dimj * (dimk + 1), dimi * (dimk + 1), dimi * dimj, dimi * dimj, dimi)
      ELSE IF endswith(dimPosAt, "c")
        THEN M(dimj * dimk, dimi * dimk, dimi * dimj, dimi * dimj, dimi)
      ELSE [kind |-> "BadDimPosAt"]

\* the per-axis extents and the linear cell index of a 3D variable, by the
\* suffix of dimPosAt; "ZeroDivisionError" when a divisor is 0, "BadDimPosAt"
\* for an unknown suffix
mesh3D(dimPosAt, coordSystem, vLength, dimi, dimj, dimk, i, j, k) ==
  LET M(di, dj, dk, levdim, rowlen) ==
        IF di = 0 \/ dj = 0 \/ dk = 0
          THEN [kind |-> "ZeroDivisionError"]
          ELSE [kind |-> "value",
                nmesh_i |-> vLength \div di, nmesh_j |-> vLength \div dj,
                nmesh_k |-> vLength \div dk,
                cell |-> (k - 1) * levdim + (j - 1) * rowlen + i]
  IN  IF endswith(dimPosAt, "I")
        THEN M(dimj * dimk, (dimi + 1) * dimk, (dimi + 1) * dimj,
               (dimi + 1) * dimj, dimi + 1)
      ELSE IF endswith(dimPosAt, "J")
        THEN IF coordSystem = "CYL3D"
               THEN M(dimj * dimk, dimi * dimk, dimi * dimj, dimi * dimj, dimi)
               ELSE M((dimj + 1) * dimk, dimi * dimk, dimi * (dimj + 1),
                      dimi * (dimj + 1), dimi)
      ELSE IF endswith(dimPosAt, "K")
        THEN M(dimj * (dimk + 1), dimi * (dimk + 1), dimi * dimj, dimi * dimj, dimi)
      ELSE IF endswith(dimPosAt, "c")
        THEN M(dimj * dimk, dimi * dimk, dimi * dimj, dimi * dimj, dimi)
      ELSE [kind |-> "BadDimPosAt"]

\* the lower-bound test without "or x == 0"
none_ZeroAccepted(x) == x = PyNone

\* "x is None or x == 0"
none(x) == x = PyNone \/ x = 0

\* the index checks with both lower-bound tests of a 2D variable ahead of its
\* extent tests
cellIndex_LowerFirst(dimPosAt, tmpl, vLength, i, j, k) ==
  LET err(e) == [kind |-> e, cell |-> 0]
      ok(c) == [kind |-> "value", cell |-> c]
  IN  IF startswith(dimPosAt, "3") THEN
        IF none(i) THEN err("INDEX_I_LBOUND_ERR")
        ELSE IF none(j) THEN err("INDEX_J_LBOUND_ERR")
        ELSE IF none(k) THEN err("INDEX_K_LBOUND_ERR")
        ELSE IF tmpl = NoTemplate THEN err("AttributeError")
        ELSE LET m == mesh3D(dimPosAt, tmpl.coordSys, vLength,
                             tmpl.dimi, tmpl.dimj, tmpl.dimk, i, j, k)
             IN  IF m.kind = "BadDimPosAt" THEN err("ProgrammingError")
                 ELSE IF m.kind # "value" THEN err(m.kind)
                 ELSE IF i > m.nmesh_i THEN err("INDEX_I_UBOUND_ERR")
                 ELSE IF j > m.nmesh_j THEN err("INDEX_J_UBOUND_ERR")
                 ELSE IF k > m.nmesh_k THEN err("INDEX_K_UBOUND_ERR")
                 ELSE ok(m.cell)
      ELSE IF startswith(dimPosAt, "2") THEN
        IF tmpl = NoTemplate THEN err("TypeError")
        ELSE IF none(i) THEN err("INDEX_I_LBOUND_ERR")
        ELSE IF none(j) THEN err("INDEX_J_LBOUND_ERR")
        ELSE IF i > vLength \div (tmpl.dimj + 1) THEN err("INDEX_I_UBOUND_ERR")
        ELSE IF tmpl.dimi = 0 THEN err("ZeroDivisionError")
        ELSE IF j > vLength \div tmpl.dimi THEN err("INDEX_J_UBOUND_ERR")
        ELSE ok((j - 1) * tmpl.dimi + i)
      ELSE IF startswith(dimPosAt, "1") THEN
        IF none(i) THEN err("INDEX_I_LBOUND_ERR")
        ELSE IF i > vLength THEN err("INDEX_I_UBOUND_ERR")
        ELSE ok(i)
      ELSE IF startswith(dimPosAt, "0") THEN ok(1)
      ELSE err("ProgrammingError")

\* the index checks of getData and the linear cell index: [kind |-> "value",
\* cell |-> c] or the error raised
cellIndex(dimPosAt, tmpl, vLength, i, j, k) ==
  LET err(e) == [kind |-> e, cell |-> 0]
      ok(c) == [kind |-> "value", cell |-> c]
  IN  IF startswith(dimPosAt, "3") THEN
        IF none(i) THEN err("INDEX_I_LBOUND_ERR")
        ELSE IF none(j) THEN err("INDEX_J_LBOUND_ERR")
        ELSE IF none(k) THEN err("INDEX_K_LBOUND_ERR")
        ELSE IF tmpl = NoTemplate THEN err("AttributeError")
        ELSE LET m == mesh3D(dimPosAt, tmpl.coordSys, vLength,
                             tmpl.dimi, tmpl.dimj, tmpl.dimk, i, j, k)
             IN  IF m.kind = "BadDimPosAt" THEN err("ProgrammingError")
                 ELSE IF m.kind # "value" THEN err(m.kind)
                 ELSE IF i > m.nmesh_i THEN err("INDEX_I_UBOUND_ERR")
                 ELSE IF j > m.nmesh_j THEN err("INDEX_J_UBOUND_ERR")
                 ELSE IF k > m.nmesh_k THEN err("INDEX_K_UBOUND_ERR")
                 ELSE ok(m.cell)
      ELSE IF startswith(dimPosAt, "2") THEN
        IF tmpl = NoTemplate THEN err("TypeError")
        ELSE IF none(i) THEN err("INDEX_I_LBOUND_ERR")
        ELSE IF i > vLength \div (tmpl.dimj + 1) THEN err("INDEX_I_UBOUND_ERR")
        ELSE IF tmpl.dimi = 0 THEN err("ZeroDivisionError")
        ELSE IF none(j) THEN err("INDEX_J_LBOUND_ERR")
        ELSE IF j > vLength \div tmpl.dimi THEN err("INDEX_J_UBOUND_ERR")
        ELSE ok((j - 1) * tmpl.dimi + i)
      ELSE IF startswith(dimPosAt, "1") THEN
        IF none(i) THEN err("INDEX_I_LBOUND_ERR")
        ELSE IF i > vLength THEN err("INDEX_I_UBOUND_ERR")
        ELSE ok(i)
      ELSE IF startswith(dimPosAt, "0") THEN ok(1)
      ELSE err("ProgrammingError")

\* the time checks of getData, clamping to the last entry instead of raising
timeLatch_Clamp(time) ==
  IF times = <<>> THEN Raise("IndexError", <<>>)
  ELSE IF time < 0 \/ time > times[Len(times)] THEN Value(times[Len(times)], <<>>)
  ELSE IF time < times[1] THEN Raise("TIME_LBOUND_ERR", <<>>)
  ELSE Value(time, <<>>)

\* the time checks of getData: the time to look up, or the error raised
timeLatch(time) ==
  IF times = <<>> THEN Raise("IndexError", <<>>)
  ELSE IF time < 0 THEN Value(times[Len(times)], <<>>)
  ELSE IF time > times[Len(times)] THEN Raise("TIME_UBOUND_ERR", <<>>)
  ELSE IF time < times[1] THEN Raise("TIME_LBOUND_ERR", <<>>)
  ELSE Value(time, <<>>)

\* self.times[n] with Python's index n (n = -1 is the last entry)
timeAt(n) == IF n < 0 THEN times[Len(times) + n + 1] ELSE times[n + 1]

\* the byte offset of a value, counting records from 1
offsetOf_OneBased(edit, startingPoint) ==
  SB.dataStart + (edit + 1) * SB.dataLen + startingPoint

\* the byte offset of a value of record edit (0-based)
offsetOf(edit, startingPoint) == SB.dataStart + edit * SB.dataLen + startingPoint

\* the decodes of getData once the in-record offset and the time are known
readAtTime(time, startingPoint) ==
  LET startingEdit == bisect_right(times, time)
      r1 == unpack_float_at(offsetOf(startingEdit - 1, startingPoint))
      r2 == unpack_float_at(offsetOf(startingEdit, startingPoint))
  IN  IF time = timeAt(startingEdit - 1)
        THEN IF r1.kind = "value" THEN Value(F(r1.val), r1.seeks) ELSE r1
      ELSE IF r1.kind # "value" THEN r1
      ELSE IF r2.kind # "value" THEN Raise(r2.kind, r1.seeks \o r2.seeks)
      ELSE Value(interpolate(timeAt(startingEdit - 1), F(r1.val),
                             timeAt(startingEdit), F(r2.val), time),
                 r1.seeks \o r2.seeks)

\* XtvFile.getData
getData(time, id, compType, varName, i, j, k) ==
  LET dp == getDimPosAt(id, compType, varName)
      comp == compGet(id, compType)
      ch == comp.channels[strip(varName)]
      tmplInd == ch.vTmpl
      tmpl == comp.templates[tmplInd + 1]
      c == cellIndex(dp.val, tmpl, ch.vLength, i, j, k)
      startingPoint == comp.channels[varName].startIncrement + (c.cell - 1) * 4
      t == timeLatch(time)
  IN  IF dp.kind # "value" THEN dp
      ELSE IF tmplInd < 0 \/ tmplInd >= Len(comp.templates) THEN Raise("IndexError", <<>>)
      ELSE IF c.kind # "value" THEN Raise(c.kind, <<>>)
      ELSE IF varName \notin DOMAIN comp.channels THEN Raise("AttributeError", <<>>)
      ELSE IF t.kind # "value" THEN t
      ELSE readAtTime(t.val, startingPoint)

----------------------------------------------------------------------------
(* getAxialLocations and getAxialData *)

\* [(zLocs[i]+zLocs[i+1])*0.5 for i in range(len(zLocs)-1)]; the face arrays
\* of the catalog are even numbers, so every midpoint is a whole number
midpoints(zLocs) ==
  [n \in 1..(IF Len(zLocs) = 0 THEN 0 ELSE Len(zLocs) - 1) |->
     (zLocs[n] + zLocs[n + 1]) \div 2]

\* set_position(p) then unpack_farray(n, unpack_float)
unpack_farray_at(p, n) ==
  IF p < 0 THEN Raise("IOError", <<Seek(p, 0)>>)
  ELSE IF \E w \in 0..(n - 1) : p + 4 * w \notin DOMAIN xtvFile
    THEN Raise("EOFError", <<Seek(p, n)>>)
  ELSE Value([w \in 1..n |-> xtvFile[p + 4 * (w - 1)]], <<Seek(p, n)>>)

\* zLocs[0:zLocs.index(-1.0)]
cutAtSentinel(read) ==
  Assign(read, LAMBDA r :
    IF r.kind # "value" THEN r
    ELSE IF \A n \in 1..Len(r.val) : r.val[n] # -1 THEN Raise("ValueError", r.seeks)
    ELSE LET first == CHOOSE n \in 1..Len(r.val) :
                        r.val[n] = -1 /\ \A m \in 1..(n - 1) : r.val[m] # -1
         IN  Value(SubSeq(r.val, 1, first - 1), r.seeks))

\* XtvFile.getAxialLocations
getAxialLocations(time, id, compType, varName) ==
  LET dp == getDimPosAt(id, compType, varName)
      dimPosAt == dp.val
      comp == compGet(id, compType)
      tmplInd == comp.channels[strip(varName)].vTmpl
      tmpl == comp.templates[tmplInd + 1]
      startingEdit == bisect_right(times, time)
      fine(vLength) ==
        IF s_zht \notin DOMAIN comp.channels THEN Raise("AttributeError", <<>>)
        ELSE cutAtSentinel(
               unpack_farray_at(offsetOf(startingEdit - 1,
                                         comp.channels[s_zht].startIncrement), vLength))
  IN  IF dp.kind # "value" THEN dp
      ELSE IF dimPosAt = d_0D THEN Value(<<>>, <<>>)
      ELSE IF tmplInd < 0 \/ tmplInd >= Len(comp.templates) THEN Raise("IndexError", <<>>)
      ELSE IF compType = "htstrc" THEN
        IF dimPosAt = d_1dFa THEN
          IF varName \notin DOMAIN comp.channels THEN Raise("AttributeError", <<>>)
          ELSE IF varName \in fineMeshVars THEN fine(comp.channels[varName].vLength)
          ELSE IF tmpl = NoTemplate THEN Raise("AttributeError", <<>>)
          ELSE Value(tmpl.fJ, <<>>)
        ELSE IF dimPosAt = d_2dFaJ THEN
          IF tmpl = NoTemplate THEN Raise("AttributeError", <<>>)
          ELSE IF varName \in fineMeshVars THEN fine(tmpl.dimj + 1)
          ELSE Value(tmpl.fJ, <<>>)
        ELSE Raise("SystemExit", <<>>)
      ELSE IF tmpl = NoTemplate THEN Raise("AttributeError", <<>>)
      ELSE IF compType = "htstr" THEN Value(Tail(tmpl.fI), <<>>)
      ELSE IF compType = "vessel" THEN
        IF dimPosAt # d_3dFaK THEN Value(midpoints(tmpl.fK), <<>>)
        ELSE Value(tmpl.fK, <<>>)
      ELSE IF startswith(dimPosAt, "1") THEN
        IF dimPosAt = d_1dCc THEN Value(midpoints(tmpl.fI), <<>>)
        ELSE Value(tmpl.fI, <<>>)
      ELSE Raise("SystemExit", <<>>)

\* zht[n] with Python's index n
zAt(zht, n) == IF n < 0 THEN zht[Len(zht) + n + 1] ELSE zht[n + 1]

\* getData at the axial index z: __transform_indices, then getData
dataAtLevel(time, id, compType, varName, xr, yt, z) ==
  Assign(transform_indices(id, compType, varName, xr, yt, z), LAMBDA ijk :
    IF ijk.kind # "value" THEN ijk
    ELSE getData(time, id, compType, varName, ijk.val[1], ijk.val[2], ijk.val[3]))

\* the input checking with an empty list reported as a lower-bound error
axialCheck_ScalarAsLower(zht, zLoc) ==
  IF Len(zht) = 0 THEN "AXIAL_LBOUND_ERR"
  ELSE IF zLoc > zht[Len(zht)] THEN "AXIAL_UBOUND_ERR"
  ELSE IF zLoc < zht[1] THEN "AXIAL_LBOUND_ERR"
  ELSE "ok"

\* "Do some input checking": the error that zLoc raises against the axial
\* array zht, "ok" for none
axialCheck(zht, zLoc) ==
  IF Len(zht) = 0 THEN "AXIAL_SCALAR_ERR"
  ELSE IF zLoc > zht[Len(zht)] THEN "AXIAL_UBOUND_ERR"
  ELSE IF zLoc < zht[1] THEN "AXIAL_LBOUND_ERR"
  ELSE "ok"

\* the lookup of getAxialData within the record of one time edit: the value
\* at zLoc, read at the matching axial index or interpolated between the two
\* indices that bracket zLoc; checked tells whether this copy of the lookup
\* tests zLoc against the ends of the axial array first
spatial(time, id, compType, varName, zLoc, xr, yt, checked) ==
  Assign(getAxialLocations(time, id, compType, varName), LAMBDA zl :
    LET zht == zl.val
        z == bisect_right(zht, zLoc)
    IN  IF zl.kind # "value" THEN zl
        ELSE IF checked /\ axialCheck(zht, zLoc) # "ok"
          THEN Raise(axialCheck(zht, zLoc), zl.seeks)
        ELSE IF Len(zht) = 0 THEN Raise("IndexError", zl.seeks)
        ELSE Assign(dataAtLevel(time, id, compType, varName, xr, yt, z), LAMBDA at :
          IF zLoc = zAt(zht, z - 1) \/ at.kind # "value"
            THEN [at EXCEPT !.seeks = zl.seeks \o at.seeks]
          ELSE Assign(dataAtLevel(time, id, compType, varName, xr, yt, z + 1), LAMBDA up :
            IF up.kind # "value"
              THEN [up EXCEPT !.seeks = zl.seeks \o at.seeks \o up.seeks]
            ELSE IF z >= Len(zht)
              THEN Raise("IndexError", zl.seeks \o at.seeks \o up.seeks)
            ELSE IF zAt(zht, z) = zAt(zht, z - 1)
              THEN Raise("ZeroDivisionError", zl.seeks \o at.seeks \o up.seeks)
            ELSE Value(interpolate(zAt(zht, z - 1), at.val, zAt(zht, z), up.val, zLoc),
                       zl.seeks \o at.seeks \o up.seeks))))

\* XtvFile.getAxialData
getAxialData(time, id, compType, varName, zLoc, xr, yt) ==
  Assign(timeLatch(time), LAMBDA t :
    LET time_index == bisect_right(times, t.val)
        timeLower == timeAt(time_index - 1)
        timeUpper == timeAt(time_index)
    IN  IF t.kind # "value" THEN t
        ELSE IF t.val = timeLower
          THEN spatial(t.val, id, compType, varName, zLoc, xr, yt, TRUE)
        ELSE Assign(spatial(timeLower, id, compType, varName, zLoc, xr, yt, TRUE),
                    LAMBDA lvalue :
          IF lvalue.kind # "value" THEN lvalue
          ELSE Assign(spatial(timeUpper, id, compType, varName, zLoc, xr, yt, FALSE),
                      LAMBDA uvalue :
            IF uvalue.kind # "value"
              THEN [uvalue EXCEPT !.seeks = lvalue.seeks \o uvalue.seeks]
            ELSE Value(interpolate(timeLower, lvalue.val, timeUpper, uvalue.val, t.val),
                       lvalue.seeks \o uvalue.seeks))))

----------------------------------------------------------------------------
(* The channel resolver *)

Digits == {"0", "1", "2", "3", "4", "5", "6", "7", "8", "9"}

\* the string of a match group that did not take part in the match (None)
StrNone == <<"None">>

\* the value of one decimal digit
digitValue(c) ==
  CASE c = "0" -> 0 [] c = "1" -> 1 [] c = "2" -> 2 [] c = "3" -> 3 [] c = "4" -> 4
    [] c = "5" -> 5 [] c = "6" -> 6 [] c = "7" -> 7 [] c = "8" -> 8 [] c = "9" -> 9

\* int(s) for a string of decimal digits; int(None) raises TypeError, which
\* __decode_channel turns into None
RECURSIVE pyint(_)
pyint(s) ==
  IF s = StrNone THEN PyNone
  ELSE IF s = <<>> THEN 0
  ELSE 10 * pyint(SubSeq(s, 1, Len(s) - 1)) + digitValue(s[Len(s)])

\* channel.partition('-'): the index of the first hyphen, 0 when there is none
rfind_First(s, n) ==
  IF \A m \in 1..n : s[m] # "-" THEN 0
  ELSE CHOOSE m \in 1..n : s[m] = "-" /\ \A l \in 1..(m - 1) : s[l] # "-"

\* channel.rpartition('-'): the index of the last hyphen, 0 when there is none
RECURSIVE rfind(_, _)
rfind(s, n) == IF n = 0 THEN 0 ELSE IF s[n] = "-" THEN n ELSE rfind(s, n - 1)

\* \d+ and \d\d+ are greedy: the number of digits of s from index n on
RECURSIVE digitRun(_, _)
digitRun(s, n) ==
  IF n <= Len(s) /\ s[n] \in Digits THEN 1 + digitRun(s, n + 1) ELSE 0

\* an optional group that accepts a single digit
groupRun_OneDigit(s, n, letter) ==
  IF n <= Len(s) /\ s[n] = letter /\ digitRun(s, n + 1) >= 1
    THEN digitRun(s, n + 1)
    ELSE 0

\* one optional group of the regular expression at index n of s: a letter
\* followed by two or more digits; the number of digits matched, 0 for none
groupRun(s, n, letter) ==
  IF n <= Len(s) /\ s[n] = letter /\ digitRun(s, n + 1) >= 2
    THEN digitRun(s, n + 1)
    ELSE 0

\* __parseChannelString; compID of the fallback, the number 0, is the string "0"
parseChannelString(channel) ==
  LET h == rfind(channel, Len(channel))
      varName == SubSeq(channel, 1, h - 1)
      id_and_mesh == SubSeq(channel, h + 1, Len(channel))
      nid == digitRun(id_and_mesh, 1)
      na == groupRun(id_and_mesh, nid + 1, "A")
      pr == nid + 1 + na + 1
      nr == IF na = 0 THEN 0 ELSE groupRun(id_and_mesh, pr, "R")
      pt == pr + nr + 1
      nt == IF nr = 0 THEN 0 ELSE groupRun(id_and_mesh, pt, "T")
      grp(at, n) == IF n = 0 THEN StrNone ELSE SubSeq(id_and_mesh, at + 1, at + n)
  IN  IF nid = 0
        THEN [varName |-> channel, compID |-> <<"0">>,
              a |-> <<"0">>, r |-> <<"0">>, t |-> <<"0">>]
        ELSE [varName |-> varName, compID |-> SubSeq(id_and_mesh, 1, nid),
              a |-> grp(nid + 1, na), r |-> grp(pr, nr), t |-> grp(pt, nt)]

\* __decode_channel
decode_channel(channel) ==
  Assign(parseChannelString(channel), LAMBDA p :
    [varName |-> p.varName, compType |-> getCompType(pyint(p.compID), p.varName),
     id |-> pyint(p.compID), a |-> pyint(p.a), r |-> pyint(p.r), t |-> pyint(p.t)])

\* getDataChannel with a missing mesh group read as index 1
getDataChannel_Defaulted(time, channel) ==
  LET one(x) == IF x = PyNone THEN 1 ELSE x
  IN  Assign(decode_channel(channel), LAMBDA d :
        getData(time, d.id, d.compType, d.varName, one(d.r), one(d.t), one(d.a)))

\* XtvFile.getDataChannel
getDataChannel(time, channel) ==
  Assign(decode_channel(channel), LAMBDA d :
    Assign(transform_indices(d.id, d.compType, d.varName, d.r, d.t, d.a), LAMBDA ijk :
      IF ijk.kind # "value" THEN ijk
      ELSE getData(time, d.id, d.compType, d.varName, ijk.val[1], ijk.val[2], ijk.val[3])))

\* XtvFile.getAxialDataChannel
getAxialDataChannel(time, channel, zLoc) ==
  Assign(decode_channel(channel), LAMBDA d :
    getAxialData(time, d.id, d.compType, d.varName, zLoc, d.r, d.t))

----------------------------------------------------------------------------
(* The bulk operations: loops over the single-point queries *)

\* the index of the first call of rs that raised, 0 when none did
firstFailure(rs) ==
  IF \A n \in 1..Len(rs) : rs[n].kind = "value" THEN 0
  ELSE CHOOSE n \in 1..Len(rs) :
         rs[n].kind # "value" /\ \A m \in 1..(n - 1) : rs[m].kind = "value"

\* the seeks and decodes of the calls rs[1..n], in order
RECURSIVE seeksOf(_, _)
seeksOf(rs, n) == IF n = 0 THEN <<>> ELSE seeksOf(rs, n - 1) \o rs[n].seeks

\* a loop that keeps what it has appended when a call raises
gather_Partial(calls, before) ==
  Assign(calls, LAMBDA rs :
    LET f == firstFailure(rs)
    IN  IF f = 0
          THEN Value([n \in 1..Len(rs) |-> rs[n].val], before \o seeksOf(rs, Len(rs)))
          ELSE Value([n \in 1..(f - 1) |-> rs[n].val], before \o seeksOf(rs, f)))

\* "for point in points: result.append(query(point))": the list of the
\* values of the calls, or the exception of the first call that raised,
\* after the seeks before of the statements ahead of the loop
gather(calls, before) ==
  Assign(calls, LAMBDA rs :
    LET f == firstFailure(rs)
    IN  IF f = 0
          THEN Value([n \in 1..Len(rs) |-> rs[n].val], before \o seeksOf(rs, Len(rs)))
          ELSE Raise(rs[f].kind, before \o seeksOf(rs, f)))

\* vector.append((label, value)) for every value of a finished loop
paired(labels, g) ==
  IF g.kind # "value" THEN g
  ELSE Value([n \in 1..Len(g.val) |-> <<labels[n], g.val[n]>>], g.seeks)

\* XtvFile.getTimeData
getTimeData(timePoints, id, compType, varName, i, j, k) ==
  gather([n \in 1..Len(timePoints) |->
            getData(timePoints[n], id, compType, varName, i, j, k)], <<>>)

\* XtvFile.getTimeVector
getTimeVector(channel) ==
  Assign(decode_channel(channel), LAMBDA d :
    Assign(transform_indices(d.id, d.compType, d.varName, d.r, d.t, d.a), LAMBDA ijk :
      IF ijk.kind # "value" THEN ijk
      ELSE paired(times,
             gather([n \in 1..Len(times) |->
                       getData(times[n], d.id, d.compType, d.varName,
                               ijk.val[1], ijk.val[2], ijk.val[3])], <<>>))))

\* XtvFile.getTimeVectorAxial: the loop body is the lookup of getAxialData
\* within one time edit, written out again without its input checking
getTimeVectorAxial(channel, zLoc) ==
  Assign(decode_channel(channel), LAMBDA d :
    paired(times,
      gather([n \in 1..Len(times) |->
                spatial(times[n], d.id, d.compType, d.varName, zLoc, d.r, d.t, FALSE)],
             <<>>)))

\* XtvFile.getAxialVector
getAxialVector(time, channel) ==
  Assign(decode_channel(channel), LAMBDA d :
    Assign(getAxialLocations(time, d.id, d.compType, d.varName), LAMBDA zLocs :
      IF zLocs.kind # "value" THEN zLocs
      ELSE paired(zLocs.val,
             gather([n \in 1..Len(zLocs.val) |->
                       getAxialData(time, d.id, d.compType, d.varName,
                                    zLocs.val[n], d.r, d.t)], zLocs.seeks))))

----------------------------------------------------------------------------
(* The state after construction *)

Idle == [op |-> "idle"]
NoResult == [kind |-> "none", val |-> PyNone, seeks |-> <<>>]

\* the object XtvFile(xtvFile) of a well-formed file with time index ts and
\* fine-mesh pattern zp: the header is parsed, the time index is read from
\* byte 20 of every record and the cursor is left behind the last time read
Constructed(ts, zp) ==
  LET ds == 400
      file == MkFile(ds, ts, zp)
  IN  /\ components = ParsedComponents
      /\ SB = [dataStart |-> ds, dataLen |-> DataLen, nPoints |-> Len(ts)]
      /\ xtvFile = file
      /\ times = [i \in 1..Len(ts) |-> file[ds + (i - 1) * DataLen + 20]]
      /\ pos = ds + (Len(ts) - 1) * DataLen + 24
      /\ opened = "True"
      /\ call = Idle
      /\ result = NoResult

\* the times a caller asks for: every entry, the midpoints between entries,
\* and one step outside on either side
TimeReqs == -3..3

\* the indices a caller passes on an axis of computed extent n: absent, a
\* negative one, 0, every valid index and one past the extent
IdxFor(n) == {PyNone} \cup (0 - 1)..(n + 1)

\* the per-axis extents getData computes for channel ch of component comp
\* (0 on an axis the variable does not have)
Extents(comp, ch) ==
  LET tmpl == comp.templates[ch.vTmpl + 1]
      dp == strip(ch.dimPosAt)
      m == mesh3D(dp, tmpl.coordSys, ch.vLength, tmpl.dimi, tmpl.dimj, tmpl.dimk, 1, 1, 1)
  IN  IF startswith(dp, "3") THEN <<m.nmesh_i, m.nmesh_j, m.nmesh_k>>
      ELSE IF startswith(dp, "2")
        THEN <<ch.vLength \div (tmpl.dimj + 1), ch.vLength \div tmpl.dimi, 0>>
      ELSE IF startswith(dp, "1") THEN <<ch.vLength, 0, 0>>
      ELSE <<0, 0, 0>>

\* (id, compType, varName) of every declared channel
Declared ==
  UNION {{<<components[n].number, components[n].compType, nm>> :
            nm \in DOMAIN components[n].channels} : n \in DOMAIN components}

\* (id, compType, varName) that name no channel, and a padded name
Undeclared ==
  {<<500, "vessel", s_vln>>, <<999, "pipe", s_pn>>, <<140, NoType, s_rftn>>,
   <<55, "pipe", s_pn \o <<" ">> >>}

IsDeclared(x) == hasChannel(compGet(x[1], x[2]), x[3])

\* the index triples tried on a channel
IndexArgs(x) ==
  IF IsDeclared(x)
    THEN LET e == Extents(compGet(x[1], x[2]), compGet(x[1], x[2]).channels[x[3]])
         IN  {<<i, j, k>> : i \in (IF e[1] = 0 THEN {1} ELSE IdxFor(e[1])),
                            j \in (IF e[2] = 0 THEN {0} ELSE IdxFor(e[2])),
                            k \in (IF e[3] = 0 THEN {0} ELSE IdxFor(e[3]))}
    ELSE {<<1, 0, 0>>}

----------------------------------------------------------------------------
(* Queries *)

\* a call of getData(time, id, compType, varName, i, j, k)
GetData ==
  /\ call = Idle
  /\ \E time \in TimeReqs, x \in Declared \cup Undeclared :
       \E ijk \in IndexArgs(x) :
         LET r == getData(time, x[1], x[2], x[3], ijk[1], ijk[2], ijk[3])
         IN  /\ call' = [op |-> "getData", time |-> time, id |-> x[1],
                         compType |-> x[2], varName |-> x[3],
                         i |-> ijk[1], j |-> ijk[2], k |-> ijk[3]]
             /\ result' = r
             /\ pos' = CursorAfter(pos, r.seeks)
  /\ UNCHANGED header

InitData == \E ts \in TimeSeqs : Constructed(ts, 1)

NextData == GetData

SpecData == InitData /\ [][NextData]_vars

----------------------------------------------------------------------------
(* Claims about getData *)

\* the call went to a declared channel with indices getData accepts
CallChannel == compGet(call.id, call.compType).channels[call.varName]
CallTemplate == compGet(call.id, call.compType).templates[CallChannel.vTmpl + 1]
CallCell ==
  cellIndex(strip(CallChannel.dimPosAt), CallTemplate, CallChannel.vLength,
            call.i, call.j, call.k)
ValidGetData ==
  /\ call.op = "getData"
  /\ IsDeclared(<<call.id, call.compType, call.varName>>)
  /\ CallCell.kind = "value"

\* the 0-based indices of the records whose time is t
RecordsAt(t) == {r \in 0..(Len(times) - 1) : times[r + 1] = t}
LastRecordAt(t) == CHOOSE r \in RecordsAt(t) : \A m \in RecordsAt(t) : m <= r

\* dataStart + recordIndex*dataLen + channel.startIncrement + (cell-1)*4
DirectOffset(recordIndex) ==
  SB.dataStart + recordIndex * SB.dataLen + CallChannel.startIncrement
    + (CallCell.cell - 1) * 4

\* the result is the raw float of record r, decoded after one seek
IsRawOf(r) ==
  /\ result.kind = "value"
  /\ result.val = F(xtvFile[DirectOffset(r)])
  /\ result.seeks = <<Seek(DirectOffset(r), 1)>>

\* C1 as stated: for every requested time equal to a TimeIndex entry, getData
\* returns the raw float of a record with that time, without interpolation
C1_Original ==
  (ValidGetData /\ RecordsAt(call.time) # {})
    => \E r \in RecordsAt(call.time) : IsRawOf(r)

\* C1 (amended): for every non-negative requested time equal to a TimeIndex
\* entry, getData performs no interpolation and returns the raw float decoded
\* at dataStart + recordIndex*dataLen + startIncrement + (cell-1)*4, where
\* recordIndex is the 0-based index of the last record with that time
C1_ExactTimeRaw ==
  (ValidGetData /\ call.time >= 0 /\ RecordsAt(call.time) # {})
    => IsRawOf(LastRecordAt(call.time))

\* C1 witness: an exact-time read of a record after the first, of a cell
\* after the first
C1_Witness ==
  /\ ValidGetData /\ call.time >= 0 /\ RecordsAt(call.time) # {}
  /\ LastRecordAt(call.time) >= 1
  /\ CallCell.cell > 1
  /\ result.kind = "value"

\* t lies strictly between the adjacent entries a and a+1 (1-based)
Between(a, t) == a \in 1..(Len(times) - 1) /\ times[a] < t /\ t < times[a + 1]

\* v1 + (v2-v1)*(t-t1)/(t2-t1) from the records a-1 and a (0-based)
Blend(a, t) ==
  LET v1 == F(xtvFile[DirectOffset(a - 1)])
      v2 == F(xtvFile[DirectOffset(a)])
  IN  RAdd(v1, RDivInt(RMulInt(RSub(v2, v1), t - times[a]), times[a + 1] - times[a]))

IsBlendOf(a) ==
  /\ result.kind = "value"
  /\ result.val = Blend(a, call.time)
  /\ result.seeks = <<Seek(DirectOffset(a - 1), 1), Seek(DirectOffset(a), 1)>>

\* C2 as stated: for every requested time strictly between two adjacent
\* entries t1 < t2, getData returns v1 + (v2-v1)*(t-t1)/(t2-t1) from the
\* record of t1 and the next record, and uses no other record
C2_Original ==
  ValidGetData => \A a \in 1..(Len(times) - 1) : Between(a, call.time) => IsBlendOf(a)

\* C2 (amended): the same for every non-negative requested time
C2_Interpolated ==
  (ValidGetData /\ call.time >= 0)
    => \A a \in 1..(Len(times) - 1) : Between(a, call.time) => IsBlendOf(a)

\* C2 witness: an interpolated read between the second and the third record
C2_Witness ==
  /\ ValidGetData /\ call.time >= 0 /\ Between(2, call.time)
  /\ CallCell.cell > 1
  /\ result.kind = "value"

NoDecode(e) == result.kind = e /\ result.seeks = <<>>

\* C3 as stated: a non-negative requested time below the first entry raises
\* the before-first error, a requested time above the last entry raises the
\* after-last error; nothing is decoded
C3_Original ==
  ValidGetData =>
    /\ (call.time >= 0 /\ call.time < times[1]) => NoDecode("TIME_LBOUND_ERR")
    /\ call.time > times[Len(times)] => NoDecode("TIME_UBOUND_ERR")

\* C3 (amended): a non-negative requested time below the first entry raises
\* the before-first error, a non-negative requested time above the last entry
\* raises the after-last error; nothing is decoded
C3_TimeOutOfBounds ==
  (ValidGetData /\ call.time >= 0) =>
    /\ call.time < times[1] => NoDecode("TIME_LBOUND_ERR")
    /\ call.time > times[Len(times)] => NoDecode("TIME_UBOUND_ERR")

\* C3 witness: a non-negative request above the last of several entries
C3_Witness ==
  /\ ValidGetData /\ call.time >= 0
  /\ Len(times) >= 2
  /\ call.time > times[Len(times)]
  /\ result.kind = "TIME_UBOUND_ERR"

\* the number of axes the dimensionality of the called channel requires
CallAxes ==
  LET dp == strip(CallChannel.dimPosAt)
  IN  IF startswith(dp, "3") THEN 3
      ELSE IF startswith(dp, "2") THEN 2
      ELSE IF startswith(dp, "1") THEN 1
      ELSE 0

CallIndex == <<call.i, call.j, call.k>>
CallExtents == Extents(compGet(call.id, call.compType), CallChannel)
LowerError == <<"INDEX_I_LBOUND_ERR", "INDEX_J_LBOUND_ERR", "INDEX_K_LBOUND_ERR">>
UpperError == <<"INDEX_I_UBOUND_ERR", "INDEX_J_UBOUND_ERR", "INDEX_K_UBOUND_ERR">>

\* every required index other than that of axis a is within 1..extent
OthersValid(a) ==
  \A b \in (1..CallAxes) \ {a} : CallIndex[b] >= 1 /\ CallIndex[b] <= CallExtents[b]

\* C4: on every axis the dimensionality requires, an index that is 0 or
\* absent (the others valid) raises that axis's lower-bound error, and an
\* index one past the computed extent (the others valid) raises that axis's
\* upper-bound error
C4_IndexBounds ==
  (call.op = "getData" /\ IsDeclared(<<call.id, call.compType, call.varName>>)) =>
    \A a \in 1..CallAxes :
      OthersValid(a) =>
        /\ (CallIndex[a] = 0 \/ CallIndex[a] = PyNone) => NoDecode(LowerError[a])
        /\ CallIndex[a] = CallExtents[a] + 1 => NoDecode(UpperError[a])

\* C4 witness: a J-face variable of the Cartesian vessel asked for the row
\* one past its j extent
C4_Witness ==
  /\ call.op = "getData"
  /\ call.id = 510 /\ call.varName = s_vlnyt
  /\ call.i = 2 /\ call.j = 4 /\ call.k = 2
  /\ result.kind = "INDEX_J_UBOUND_ERR"

----------------------------------------------------------------------------
(* Channel identifiers *)

\* the concatenation of a sequence of strings
RECURSIVE Concat(_)
Concat(ss) == IF ss = <<>> THEN <<>> ELSE Head(ss) \o Concat(Tail(ss))

\* the pieces generated identifiers are made of
Pieces ==
  {<<"p", "n">>,
   <<"-">>,
   <<"5">>,
   <<"A", "0", "1">>,
   <<"A", "2">>,
   <<"R", "0", "2">>,
   <<"T", "0", "1">>,
   <<"x">>}

\* every identifier of at most MaxIdLen pieces
Identifiers ==
  UNION {{Concat(ps) : ps \in [1..n -> Pieces]} : n \in 0..MaxIdLen}

\* identifiers of the catalog without mesh indices, and two that name no channel
BaseIds ==
  {<<"p", "n", "-", "5", "0", "0">>,
   <<"v", "l", "n", "x", "r", "-", "5", "0", "0">>,
   <<"v", "l", "n", "y", "t", "-", "5", "0", "0">>,
   <<"v", "l", "n", "z", "-", "5", "0", "0">>,
   <<"v", "l", "n", "y", "t", "-", "5", "1", "0">>,
   <<"p", "n", "-", "5", "5">>,
   <<"v", "l", "n", "-", "5", "5">>,
   <<"q", "o", "u", "t", "-", "5", "5">>,
   <<"t", "s", "u", "r", "f", "i", "-", "1", "4", "0">>,
   <<"t", "s", "u", "r", "f", "o", "-", "1", "4", "0">>,
   <<"r", "f", "t", "n", "-", "1", "4", "0">>,
   <<"z", "h", "t", "-", "1", "4", "0">>,
   <<"p", "n", "-", "7">>,
   <<"v", "l", "n", "-", "5", "0", "0">>}

\* the mesh-index groups appended to them
GroupA == {<<"A", "0", "1">>, <<"A", "0", "2">>}
GroupR == {<<"R", "0", "1">>, <<"R", "0", "2">>}
GroupT == {<<"T", "0", "1">>, <<"T", "0", "2">>}
Groups ==
  {<<>>} \cup GroupA \cup {a \o r : a \in GroupA, r \in GroupR}
    \cup {a \o r \o t : a \in GroupA, r \in GroupR, t \in GroupT}

QueryIds == {b \o g : b \in BaseIds, g \in Groups}

s_pn_500A01 == <<"p", "n", "-", "5", "0", "0", "A", "0", "1">>
s_pn_500A01R01T01 == <<"p", "n", "-", "5", "0", "0", "A", "0", "1", "R", "0", "1", "T", "0", "1">>
s_unparseable ==
  <<"t", "o", "t", "a", "l", "l", "y", "-", "u", "n", "p", "a", "r", "s", "e", "a", "b", "l", "e", "-", "9", "9", "9">>

----------------------------------------------------------------------------
(* Queries by channel identifier *)

\* a call of __decode_channel(channel), as every query by identifier makes
DecodeChannel ==
  /\ call = Idle
  /\ \E channel \in Identifiers \cup QueryIds \cup {s_unparseable} :
       /\ call' = [op |-> "decode_channel", channel |-> channel]
       /\ result' = Value([parsed |-> parseChannelString(channel),
                           decoded |-> decode_channel(channel)], <<>>)
  /\ UNCHANGED <<header, pos>>

\* the mesh indices a caller passes to __transform_indices
MeshArgs == {PyNone} \cup (0 - 1)..2

\* a call of __transform_indices(id, compType, varName, xr, yt, z)
TransformIndices ==
  /\ call = Idle
  /\ \E x \in Declared \cup Undeclared, xr \in MeshArgs, yt \in MeshArgs, z \in MeshArgs :
       /\ call' = [op |-> "transform_indices", id |-> x[1], compType |-> x[2],
                   varName |-> x[3], xr |-> xr, yt |-> yt, z |-> z]
       /\ result' = transform_indices(x[1], x[2], x[3], xr, yt, z)
  /\ UNCHANGED <<header, pos>>

\* a call of getDataChannel(time, channel)
GetDataChannel ==
  /\ call = Idle
  /\ \E time \in TimeReqs, channel \in QueryIds \cup {s_unparseable} :
       \E r \in {getDataChannel(time, channel)} :
           /\ call' = [op |-> "getDataChannel", time |-> time, channel |-> channel]
           /\ result' = r
           /\ pos' = CursorAfter(pos, r.seeks)
  /\ UNCHANGED header

\* a call of getAxialLocations(time, id, compType, varName)
\* getAxialLocations with zLocs = fI[1:] done in place (del fI[0]) on the
\* template of a heat structure
GetAxialLocations_InPlace ==
  /\ call = Idle
  /\ \E time \in TimeReqs, x \in Declared \cup Undeclared :
       \E r \in {getAxialLocations(time, x[1], x[2], x[3])} :
           /\ call' = [op |-> "getAxialLocations", time |-> time, id |-> x[1],
                       compType |-> x[2], varName |-> x[3]]
           /\ result' = r
           /\ pos' = CursorAfter(pos, r.seeks)
           /\ components' =
                [n \in DOMAIN components |->
                   IF /\ components[n].number = x[1]
                      /\ components[n].compType = x[2]
                      /\ x[2] = "htstr" /\ r.kind = "value"
                     THEN [components[n] EXCEPT !.templates[2].fI = Tail(@)]
                     ELSE components[n]]
  /\ UNCHANGED <<SB, times, xtvFile, opened>>

GetAxialLocations ==
  /\ call = Idle
  /\ \E time \in TimeReqs, x \in Declared \cup Undeclared :
       \E r \in {getAxialLocations(time, x[1], x[2], x[3])} :
           /\ call' = [op |-> "getAxialLocations", time |-> time, id |-> x[1],
                       compType |-> x[2], varName |-> x[3]]
           /\ result' = r
           /\ pos' = CursorAfter(pos, r.seeks)
  /\ UNCHANGED header

\* the resolver alone, on one file
InitResolve == Constructed(<<0, 2>>, 1)

NextResolve == DecodeChannel \/ TransformIndices

SpecResolve == InitResolve /\ [][NextResolve]_vars

\* the queries by identifier, on every file
InitChannel == \E ts \in TimeSeqs : Constructed(ts, 1)

NextChannel == GetDataChannel \/ GetAxialLocations

SpecChannel == InitChannel /\ [][NextChannel]_vars

----------------------------------------------------------------------------
(* Claims about the resolver *)

\* the channel of a __transform_indices call, when it is declared
TransformDim ==
  strip(compGet(call.id, call.compType).channels[call.varName].dimPosAt)

\* C5: the index transform dispatches on the first character of dimPosAt:
\* '3' returns (xr, yt, z); '2' returns (xr, z, 0) and fails with the
\* unused-theta error if yt > 0; '1' returns (z, 0, 0) and fails with the
\* unused-radial/theta error if xr > 0 or yt > 0; '0' returns (0, 0, 0) and
\* fails with the unused-all-three error if any index is > 0; an index > 0 on
\* an axis the dimensionality does not use is never accepted
C5_Transform ==
  (call.op = "transform_indices"
     /\ IsDeclared(<<call.id, call.compType, call.varName>>)) =>
    LET xr == call.xr
        yt == call.yt
        z == call.z
        is(v) == result.kind = "value" /\ result.val = v
    IN  /\ startswith(TransformDim, "3") => is(<<xr, yt, z>>)
        /\ startswith(TransformDim, "2") =>
             IF yt > 0 THEN result.kind = "ERR_YT_INDEX" ELSE is(<<xr, z, 0>>)
        /\ startswith(TransformDim, "1") =>
             IF xr > 0 \/ yt > 0 THEN result.kind = "ERR_XRYT_INDEX"
             ELSE is(<<z, 0, 0>>)
        /\ startswith(TransformDim, "0") =>
             IF xr > 0 \/ yt > 0 \/ z > 0 THEN result.kind = "ERR_AXRYT_INDEX"
             ELSE is(<<0, 0, 0>>)
        /\ result.kind = "value" =>
             /\ ~startswith(TransformDim, "3") => ~(yt > 0)
             /\ (startswith(TransformDim, "1") \/ startswith(TransformDim, "0"))
                  => ~(xr > 0)
             /\ startswith(TransformDim, "0") => ~(z > 0)

\* C5 witness: a 2D variable given a negative radial index and an axial index
C5_Witness ==
  /\ call.op = "transform_indices"
  /\ call.varName = s_rftn /\ call.compType = "htstrc"
  /\ call.xr = 0 - 1 /\ call.yt = PyNone /\ call.z = 2
  /\ result.kind = "value" /\ result.val = <<0 - 1, 2, 0>>

\* the identifier of a __decode_channel call, split at its last hyphen
LastHyphen(c) ==
  IF \A n \in 1..Len(c) : c[n] # "-" THEN 0
  ELSE CHOOSE n \in 1..Len(c) : c[n] = "-" /\ \A m \in (n + 1)..Len(c) : c[m] # "-"
BeforeHyphen(c) == [n \in 1..(LastHyphen(c) - 1) |-> c[n]]
Token(c) == [n \in 1..(Len(c) - LastHyphen(c)) |-> c[LastHyphen(c) + n]]

\* the n characters of s from index at on are all digits
AllDigits(s, at, n) == \A m \in at..(at + n - 1) : m <= Len(s) /\ s[m] \in Digits
\* the length of the longest run of digits of s from index at on
LongestDigits(s, at) ==
  CHOOSE n \in 0..Len(s) : AllDigits(s, at, n) /\ ~AllDigits(s, at, n + 1)
\* the number that the n digits of s from index at on write
RECURSIVE NumberAt(_, _, _)
NumberAt(s, at, n) ==
  IF n = 0 THEN 0
  ELSE digitValue(s[at + n - 1]) + 10 * NumberAt(s, at, n - 1)
\* the digits of the group <letter><2+digits> at index at of s, 0 when the
\* group is missing
GroupDigits(s, at, letter) ==
  IF at <= Len(s) /\ s[at] = letter /\ LongestDigits(s, at + 1) >= 2
    THEN LongestDigits(s, at + 1) ELSE 0

\* what the grammar <digits>(A<2+digits>(R<2+digits>(T<2+digits>)?)?)? makes
\* of the identifier c
Expected(c) ==
  LET tok == Token(c)
      nid == LongestDigits(tok, 1)
      na == GroupDigits(tok, nid + 1, "A")
      pr == nid + na + 2
      nr == IF na = 0 THEN 0 ELSE GroupDigits(tok, pr, "R")
      pt == pr + nr + 1
      nt == IF nr = 0 THEN 0 ELSE GroupDigits(tok, pt, "T")
      num(at, n) == IF n = 0 THEN PyNone ELSE NumberAt(tok, at + 1, n)
  IN  IF nid = 0
        THEN [varName |-> c, id |-> 0, a |-> 0, r |-> 0, t |-> 0]
        ELSE [varName |-> BeforeHyphen(c), id |-> NumberAt(tok, 1, nid),
              a |-> num(nid + 1, na), r |-> num(pr, nr), t |-> num(pt, nt)]

Decoded == result.val.decoded

\* C6: resolution splits the identifier on its last hyphen; when the trailing
\* token matches <digits>(A<2+digits>(R<2+digits>(T<2+digits>)?)?)? it returns
\* the text before the last hyphen as the variable name, the digits as the
\* component id and each of axial, radial, theta as its group's number, or as
\* absent when the group is missing; when the token does not match at all it
\* returns the whole identifier as the variable name with component id 0 and
\* mesh indices 0; it never raises
C6_Resolve ==
  call.op = "decode_channel" =>
    /\ result.kind = "value"
    /\ result.val.parsed.varName = Expected(call.channel).varName
    /\ Decoded.varName = Expected(call.channel).varName
    /\ Decoded.id = Expected(call.channel).id
    /\ Decoded.a = Expected(call.channel).a
    /\ Decoded.r = Expected(call.channel).r
    /\ Decoded.t = Expected(call.channel).t

\* C6 witness: a one-digit group, which does not count as a group
C6_Witness ==
  /\ call.op = "decode_channel"
  /\ call.channel = <<"p", "n", "-", "5", "A", "2">>
  /\ Decoded.varName = s_pn
  /\ Decoded.id = 5 /\ Decoded.a = PyNone

\* the components that have the decoded number and declare the decoded name
Owners ==
  {n \in DOMAIN components :
     components[n].number = Decoded.id /\ Decoded.varName \in DOMAIN components[n].channels}

\* C7: when several components share the number of an identifier, resolution
\* selects one of them that declares the variable; when none declares it, the
\* component type is unresolved and every later lookup for the identifier
\* (transform, getData, getAxialLocations) fails with InvalidChannel
C7_ComponentType ==
  call.op = "decode_channel" =>
    /\ Owners # {} => \E n \in Owners : Decoded.compType = components[n].compType
    /\ Owners = {} =>
         /\ Decoded.compType = NoType
         /\ transform_indices(Decoded.id, Decoded.compType, Decoded.varName,
                              Decoded.r, Decoded.t, Decoded.a).kind = "INVALID_CHANNEL1"
         /\ \A time \in TimeReqs :
              /\ getData(time, Decoded.id, Decoded.compType, Decoded.varName,
                         1, 0, 0).kind = "INVALID_CHANNEL1"
              /\ getData(time, Decoded.id, Decoded.compType, Decoded.varName,
                         Decoded.r, Decoded.t, Decoded.a).kind = "INVALID_CHANNEL1"
              /\ getAxialLocations(time, Decoded.id, Decoded.compType,
                                   Decoded.varName).kind = "INVALID_CHANNEL1"

\* C7 witness: number 140 is shared by an htstr and an htstrc component; the
\* first of them does not declare rftn
C7_Witness ==
  /\ call.op = "decode_channel"
  /\ call.channel = <<"r", "f", "t", "n", "-", "1", "4", "0", "A", "0", "1">>
  /\ Cardinality({n \in DOMAIN components : components[n].number = Decoded.id}) = 2
  /\ Decoded.compType = "htstrc"

\* C9 as stated: "totally-unparseable-999" resolves through the fallback to
\* itself as the variable name, component id 0 and mesh indices 0
C9_Original ==
  (call.op = "decode_channel" /\ call.channel = s_unparseable) =>
    /\ result.kind = "value"
    /\ Decoded.varName = s_unparseable
    /\ Decoded.id = 0 /\ Decoded.a = 0 /\ Decoded.r = 0 /\ Decoded.t = 0

\* C9 (amended): "totally-unparseable-999" matches the grammar: it resolves
\* to the variable name "totally-unparseable", component id 999 and no mesh
\* index, without an exception
C9_Unparseable ==
  (call.op = "decode_channel" /\ call.channel = s_unparseable) =>
    /\ result.kind = "value"
    /\ Decoded.varName = SubSeq(s_unparseable, 1, 19)
    /\ Decoded.id = 999
    /\ Decoded.a = PyNone /\ Decoded.r = PyNone /\ Decoded.t = PyNone
    /\ Decoded.compType = NoType

\* C9 witness: the identifier has been resolved
C9_Witness ==
  /\ call.op = "decode_channel" /\ call.channel = s_unparseable
  /\ result.kind = "value" /\ Decoded.id = 999

----------------------------------------------------------------------------
(* Claims about the queries by identifier *)

\* the channel pn of the 3D vessel 500 and its template
Pn500 == compGet(500, "vessel").channels[s_pn]
Pn500Template == compGet(500, "vessel").templates[Pn500.vTmpl + 1]

\* dataStart + recordIndex*dataLen + channel.startIncrement + (cell-1)*4
Pn500Offset(recordIndex, cell) ==
  SB.dataStart + recordIndex * SB.dataLen + Pn500.startIncrement + (cell - 1) * 4

\* C8 as stated: "pn-500A01" (axial index only) through getDataChannel at an
\* exact time edit, against the 3D vessel 500 and a variable whose dimPosAt
\* starts with '3', returns the float decoded at dataStart +
\* recordIndex*dataLen + channel.startIncrement + (cell-1)*4
C8_Original ==
  (call.op = "getDataChannel" /\ call.channel = s_pn_500A01
     /\ RecordsAt(call.time) # {}) =>
    /\ result.kind = "value"
    /\ \E r \in RecordsAt(call.time), cell \in 1..(Pn500.vLength) :
         result.val = F(xtvFile[Pn500Offset(r, cell)])

\* C8 (amended): "pn-500A01" against the 3D vessel 500 fails with the lower
\* bound error of index i at every time, and nothing is decoded; the full
\* identifier "pn-500A01R01T01" at a non-negative exact time edit returns the
\* float decoded at dataStart + recordIndex*dataLen + startIncrement +
\* (cell-1)*4 with cell = 1 and recordIndex the last record of that time
C8_AxialOnly ==
  call.op = "getDataChannel" =>
    /\ startswith(strip(Pn500.dimPosAt), "3") /\ Pn500Template.name = "GD3D"
    /\ call.channel = s_pn_500A01 =>
         result.kind = "INDEX_I_LBOUND_ERR" /\ result.seeks = <<>>
    /\ (call.channel = s_pn_500A01R01T01 /\ call.time >= 0
          /\ RecordsAt(call.time) # {}) =>
         /\ result.kind = "value"
         /\ result.val = F(xtvFile[Pn500Offset(LastRecordAt(call.time), 1)])
         /\ result.seeks = <<Seek(Pn500Offset(LastRecordAt(call.time), 1), 1)>>

\* C8 witness: "pn-500A01" queried at the time of the second record
C8_Witness ==
  /\ call.op = "getDataChannel" /\ call.channel = s_pn_500A01
  /\ Len(times) >= 2 /\ call.time = times[2]
  /\ result.kind = "INDEX_I_LBOUND_ERR"

----------------------------------------------------------------------------
(* Queries by axial location *)

\* the axial locations a caller asks for: below, on, between and above the
\* faces and cell centres of the fixture
ZLocs == (0 - 1)..5

\* the mesh indices a caller passes along with an axial location; None is
\* what getAxialDataChannel passes for a missing group
AxialArgs == {PyNone, 1, 2}

\* a call of getAxialData(time, id, compType, varName, zLoc, xr, yt)
GetAxialData ==
  /\ call = Idle
  /\ \E time \in TimeReqs, x \in Declared \cup Undeclared, zLoc \in ZLocs,
        xr \in AxialArgs, yt \in AxialArgs :
       \E r \in {getAxialData(time, x[1], x[2], x[3], zLoc, xr, yt)} :
           /\ call' = [op |-> "getAxialData", time |-> time, id |-> x[1],
                       compType |-> x[2], varName |-> x[3], zLoc |-> zLoc,
                       xr |-> xr, yt |-> yt]
           /\ result' = r
           /\ pos' = CursorAfter(pos, r.seeks)
  /\ UNCHANGED header

\* the identifiers a caller asks axial data for: a scalar, 1D, 2D and 3D
\* variables and an undeclared one, with every choice of mesh groups
AxialIds ==
  {b \o g : b \in {<<"q", "o", "u", "t", "-", "5", "5">>,
                    <<"p", "n", "-", "5", "5">>,
                    <<"r", "f", "t", "n", "-", "1", "4", "0">>,
                    <<"p", "n", "-", "5", "0", "0">>,
                    <<"v", "l", "n", "-", "5", "0", "0">>},
            g \in Groups}

\* a call of getAxialDataChannel(time, channel, zLoc)
GetAxialDataChannel ==
  /\ call = Idle
  /\ \E time \in TimeReqs, channel \in AxialIds, zLoc \in ZLocs :
       \E r \in {getAxialDataChannel(time, channel, zLoc)} :
           /\ call' = [op |-> "getAxialDataChannel", time |-> time,
                       channel |-> channel, zLoc |-> zLoc]
           /\ result' = r
           /\ pos' = CursorAfter(pos, r.seeks)
  /\ UNCHANGED header

InitAxial == \E ts \in TimeSeqs, zp \in ZhtPatterns : Constructed(ts, zp)

NextAxial == GetAxialData \/ GetAxialDataChannel

SpecAxial == InitAxial /\ [][NextAxial]_vars

----------------------------------------------------------------------------
(* Claims about getAxialData *)

AxialComp == compGet(call.id, call.compType)
AxialChannel == AxialComp.channels[call.varName]
AxialTemplate == AxialComp.templates[AxialChannel.vTmpl + 1]

\* the axial-location array of record r (0-based) for the channel of the
\* call: the fine-mesh array stored in that record up to its first unused
\* entry, or the array of the template
AxialArrayOf(r) ==
  IF call.compType = "htstrc" /\ call.varName \in fineMeshVars
    THEN cutAtSentinel(
           unpack_farray_at(SB.dataStart + r * SB.dataLen
                              + AxialComp.channels[s_zht].startIncrement,
                            IF strip(AxialChannel.dimPosAt) = d_2dFaJ
                              THEN AxialTemplate.dimj + 1
                              ELSE AxialChannel.vLength))
    ELSE getAxialLocations(0, call.id, call.compType, call.varName)

\* the cell of the channel at axial index z and the mesh indices of the call
AxialCell(z) ==
  LET ijk == transform_indices(call.id, call.compType, call.varName,
                               call.xr, call.yt, z)
  IN  IF ijk.kind # "value" THEN ijk
      ELSE cellIndex(strip(AxialChannel.dimPosAt), AxialTemplate,
                     AxialChannel.vLength, ijk.val[1], ijk.val[2], ijk.val[3])

\* the float of record r at axial index z
AxialValue(r, z) ==
  F(xtvFile[SB.dataStart + r * SB.dataLen + AxialChannel.startIncrement
              + (AxialCell(z).cell - 1) * 4])

\* zLoc lies within the axial array of record r, and the axial indices that
\* zLoc needs in record r are cells of the channel
AxialInRange(r) ==
  LET zl == AxialArrayOf(r)
      zht == zl.val
  IN  /\ zl.kind = "value" /\ Len(zht) > 0
      /\ zht[1] <= call.zLoc /\ call.zLoc <= zht[Len(zht)]
      /\ \A n \in 1..Len(zht) :
           zht[n] = call.zLoc => AxialCell(n).kind = "value"
      /\ \A n \in 1..(Len(zht) - 1) :
           (zht[n] < call.zLoc /\ call.zLoc < zht[n + 1]) =>
             AxialCell(n).kind = "value" /\ AxialCell(n + 1).kind = "value"

\* S of record r: the value at the matching axial index when zLoc equals an
\* axial location, otherwise the linear interpolation between the values at
\* the two bracketing axial indices
S(r) ==
  LET zht == AxialArrayOf(r).val
  IN  IF \E n \in 1..Len(zht) : zht[n] = call.zLoc
        THEN AxialValue(r, CHOOSE n \in 1..Len(zht) : zht[n] = call.zLoc)
        ELSE LET n == CHOOSE m \in 1..(Len(zht) - 1) :
                        zht[m] < call.zLoc /\ call.zLoc < zht[m + 1]
             IN  interpolate(zht[n], AxialValue(r, n), zht[n + 1],
                             AxialValue(r, n + 1), call.zLoc)

AxialCall ==
  /\ call.op = "getAxialData"
  /\ IsDeclared(<<call.id, call.compType, call.varName>>)

\* C10: for a requested time strictly between adjacent time edits tL < tU and
\* an in-range zLoc, getAxialData returns the linear time interpolation
\* between S(tL) and S(tU), S being computed per bracketing record from that
\* record's own axial-location array; for a requested time equal to a time
\* edit the result is S of that single record
C10_Original ==
  AxialCall =>
    /\ \A a \in 1..(Len(times) - 1) :
         (Between(a, call.time) /\ AxialInRange(a - 1) /\ AxialInRange(a)) =>
           /\ result.kind = "value"
           /\ result.val = interpolate(times[a], S(a - 1), times[a + 1], S(a),
                                       call.time)
    /\ (RecordsAt(call.time) # {}
          /\ \A r \in RecordsAt(call.time) : AxialInRange(r)) =>
         /\ result.kind = "value"
         /\ \E r \in RecordsAt(call.time) : result.val = S(r)

\* the requested time of the getAxialData call after the negative-time latch,
\* and the times of the edits around it
AxialTime == timeLatch(call.time)
AxialLower == timeAt(bisect_right(times, AxialTime.val) - 1)
AxialUpper == timeAt(bisect_right(times, AxialTime.val))

\* the axial-location array that the call consults for the edit of time t
AxialArrayAt(t) == getAxialLocations(t, call.id, call.compType, call.varName)

\* zLoc lies below the first, above the last entry of a consulted array
BelowArray(zl) == zl.kind = "value" /\ Len(zl.val) > 0 /\ call.zLoc < zl.val[1]
AboveArray(zl) ==
  zl.kind = "value" /\ Len(zl.val) > 0 /\ call.zLoc > zl.val[Len(zl.val)]

\* the outcome the claim gives a zLoc outside the array zl
AxialBoundError(zl) ==
  /\ BelowArray(zl) => result.kind = "AXIAL_LBOUND_ERR"
  /\ AboveArray(zl) => result.kind = "AXIAL_UBOUND_ERR"

\* the lookup in the lower bracketing record has returned a value, so that
\* the array of the upper record is consulted
LowerDone ==
  spatial(AxialLower, call.id, call.compType, call.varName, call.zLoc,
          call.xr, call.yt, TRUE).kind = "value"

\* C11: in getAxialData, for every axial-location array consulted during the
\* query (the array of the exact record, and the arrays of the lower and the
\* upper bracketing records when time is interpolated), a zLoc below the
\* array's first entry fails with the axial lower-bound error and a zLoc
\* above its last entry with the axial upper-bound error; no value and no
\* other error kind comes out of an out-of-range zLoc
C11_Original ==
  (AxialCall /\ AxialTime.kind = "value") =>
    IF AxialTime.val = AxialLower
      THEN AxialBoundError(AxialArrayAt(AxialTime.val))
      ELSE /\ AxialBoundError(AxialArrayAt(AxialLower))
           /\ LowerDone => AxialBoundError(AxialArrayAt(AxialUpper))

\* the bound checks of the exact record and of the lower bracketing record,
\* which the code has
C11_CheckedArrays ==
  (AxialCall /\ AxialTime.kind = "value") =>
    IF AxialTime.val = AxialLower
      THEN AxialBoundError(AxialArrayAt(AxialTime.val))
      ELSE AxialBoundError(AxialArrayAt(AxialLower))

\* the channel that an axial query names, by arguments or by identifier
AxialTarget ==
  IF call.op = "getAxialDataChannel"
    THEN decode_channel(call.channel)
    ELSE [id |-> call.id, compType |-> call.compType, varName |-> call.varName]

\* an axial query on a variable declared with dimPosAt '0D'
ScalarQuery ==
  /\ call.op \in {"getAxialData", "getAxialDataChannel"}
  /\ IsDeclared(<<AxialTarget.id, AxialTarget.compType, AxialTarget.varName>>)
  /\ getDimPosAt(AxialTarget.id, AxialTarget.compType, AxialTarget.varName).val = d_0D

\* C12 as stated: an axial query (getAxialData / getAxialDataChannel) on a
\* variable declared '0D' always fails with AXIAL_SCALAR_ERR, for every
\* requested z location and every requested time
C12_Original == ScalarQuery => result.kind = "AXIAL_SCALAR_ERR"

\* C12 (amended): an axial query on a '0D' variable fails with
\* AXIAL_SCALAR_ERR for every z location and every requested time that is
\* negative or within the TimeIndex; a non-negative time before the first or
\* after the last entry fails with the time bound error instead; no value is
\* ever returned and nothing is decoded
C12_Scalar ==
  ScalarQuery =>
    /\ result.seeks = <<>>
    /\ IF call.time >= 0 /\ call.time > times[Len(times)]
         THEN result.kind = "TIME_UBOUND_ERR"
       ELSE IF call.time >= 0 /\ call.time < times[1]
         THEN result.kind = "TIME_LBOUND_ERR"
       ELSE result.kind = "AXIAL_SCALAR_ERR"

\* C12 witness: the scalar of pipe 55, asked by identifier for a time between
\* two edits
C12_Witness ==
  /\ ScalarQuery /\ call.op = "getAxialDataChannel"
  /\ \E a \in 1..(Len(times) - 1) : Between(a, call.time)
  /\ result.kind = "AXIAL_SCALAR_ERR"

----------------------------------------------------------------------------
(* The bulk queries *)

\* the longest list of time points a caller passes to getTimeData
MaxTimes == 2

\* the time points of such a list: negative, on an edit, between two edits,
\* after every edit
BulkTimes == {0 - 1, 0, 1, 3}

TimeLists ==
  UNION {[1..n -> BulkTimes] : n \in 0..MaxTimes}

\* the mesh indices of such a call: the defaults for a 1D variable, the first
\* cell of a 3D variable, an i beyond every extent
BulkIndices == {<<1, 0, 0>>, <<1, 1, 1>>, <<3, 1, 1>>}

\* a call of getTimeData(times, id, compType, varName, i, j, k)
GetTimeData ==
  /\ call = Idle
  /\ \E tp \in TimeLists, x \in Declared \cup Undeclared, ijk \in BulkIndices :
       \E r \in {getTimeData(tp, x[1], x[2], x[3], ijk[1], ijk[2], ijk[3])} :
           /\ call' = [op |-> "getTimeData", times |-> tp, id |-> x[1],
                       compType |-> x[2], varName |-> x[3],
                       i |-> ijk[1], j |-> ijk[2], k |-> ijk[3]]
           /\ result' = r
           /\ pos' = CursorAfter(pos, r.seeks)
  /\ UNCHANGED header

\* a call of getTimeVector(channel)
GetTimeVector ==
  /\ call = Idle
  /\ \E channel \in QueryIds \cup {s_unparseable} :
       \E r \in {getTimeVector(channel)} :
           /\ call' = [op |-> "getTimeVector", channel |-> channel]
           /\ result' = r
           /\ pos' = CursorAfter(pos, r.seeks)
  /\ UNCHANGED header

\* a call of getTimeVectorAxial(channel, zLoc)
GetTimeVectorAxial ==
  /\ call = Idle
  /\ \E channel \in AxialIds, zLoc \in ZLocs :
       \E r \in {getTimeVectorAxial(channel, zLoc)} :
           /\ call' = [op |-> "getTimeVectorAxial", channel |-> channel,
                       zLoc |-> zLoc]
           /\ result' = r
           /\ pos' = CursorAfter(pos, r.seeks)
  /\ UNCHANGED header

\* a call of getAxialVector(time, channel)
GetAxialVector ==
  /\ call = Idle
  /\ \E time \in TimeReqs, channel \in AxialIds :
       \E r \in {getAxialVector(time, channel)} :
           /\ call' = [op |-> "getAxialVector", time |-> time, channel |-> channel]
           /\ result' = r
           /\ pos' = CursorAfter(pos, r.seeks)
  /\ UNCHANGED header

\* the bulk queries alone
NextBulk == GetTimeData \/ GetTimeVector \/ GetTimeVectorAxial \/ GetAxialVector

SpecBulk == InitAxial /\ [][NextBulk]_vars

\* every query, on the files whose fine-mesh array changes from record to
\* record
InitQuery == \E ts \in TimeSeqs : Constructed(ts, 2)

NextQuery ==
  \/ GetData \/ GetDataChannel \/ GetAxialData \/ GetAxialDataChannel
  \/ GetAxialLocations \/ GetTimeData \/ GetTimeVector \/ GetTimeVectorAxial
  \/ GetAxialVector

SpecQuery == InitQuery /\ [][NextQuery]_vars

----------------------------------------------------------------------------
(* Claims about the negative-time latch *)

\* the query of the call, issued again with the requested time t
Reissued(t) ==
  CASE call.op = "getData" ->
         getData(t, call.id, call.compType, call.varName, call.i, call.j, call.k)
    [] call.op = "getDataChannel" -> getDataChannel(t, call.channel)
    [] call.op = "getAxialData" ->
         getAxialData(t, call.id, call.compType, call.varName, call.zLoc,
                      call.xr, call.yt)
    [] call.op = "getAxialDataChannel" ->
         getAxialDataChannel(t, call.channel, call.zLoc)
    [] call.op = "getAxialVector" -> getAxialVector(t, call.channel)

\* the result is what the query returns or raises for the last TimeIndex entry
AsForLastEdit ==
  /\ result.kind = Reissued(times[Len(times)]).kind
  /\ result.val = Reissued(times[Len(times)]).val

\* C13: for every negative requested time, each time-accepting query
\* (getData, getAxialData and the operations built on them, such as
\* getAxialVector) returns exactly the result of the same query issued with
\* the last TimeIndex entry as the requested time
C13_Original ==
  (call.op \in {"getData", "getDataChannel", "getAxialData",
                "getAxialDataChannel", "getAxialVector"}
     /\ call.time < 0) => AsForLastEdit

\* the same for the queries that rewrite the time before any other use of it
C13_SinglePoint ==
  (call.op \in {"getData", "getDataChannel", "getAxialData", "getAxialDataChannel"}
     /\ call.time < 0) => AsForLastEdit

(***************************************************************************)
(* The constructor, block by block                                         *)
(***************************************************************************)

\* an attribute that was never assigned, a local that was never bound
Unset == "<unset>"
NoSB == [dataStart |-> PyNone, dataLen |-> PyNone, nPoints |-> PyNone]
Unbound == [name |-> Unset]

\* the layout of the header region of the files opened here: the starting
\* block ends at SBEnd, every block occupies BlockSize bytes
SBEnd == 52
BlockSize == 40

\* the longest generated header, in blocks
MaxBlocks == 4

\* a block: its type tag, the bytes its handler decodes (the three fields of
\* the block header included), its jump field and the payload fields the
\* handler keeps; bad marks a block cut short right after its header fields
Block(type, used, jump, f) ==
  [type |-> type, used |-> used, jump |-> jump, bad |-> FALSE, f |-> f]

b_GCHd(id, ct) == Block("GCHd", 40, BlockSize, [compID |-> id, compType |-> ct])
b_GD3D(cs, ni, nj, nk) ==
  Block("GD3D", 40, BlockSize,
        [nCellsI |-> ni, nCellsJ |-> nj, nCellsK |-> nk, coordSys |-> cs])
b_GD3A(fi, fj, fk) == Block("GD3A", 40, BlockSize, [fI |-> fi, fJ |-> fj, fK |-> fk])
b_GD2D(cs, ni, nj) ==
  Block("GD2D", 36, BlockSize, [nCellsI |-> ni, nCellsJ |-> nj, coordSys |-> cs])
b_GD2A(fi, fj) == Block("GD2A", 36, BlockSize, [fI |-> fi, fJ |-> fj])
b_GD1D(n) == Block("GD1D", 20, BlockSize, [nCells |-> n])
b_GD1A(fi) == Block("GD1A", 36, BlockSize, [fI |-> fi])
b_GDLg(s, e, j) == Block("GDLg", 24, BlockSize, [sCell |-> s, eCell |-> e, jCell |-> j])
b_DsAx(v) == Block("DsAx", 32, BlockSize, [vMax |-> v])
b_VARD(nm, dp, fq, tm, len) ==
  Block("VARD", 40, BlockSize,
        [varName |-> nm, dimPosAt |-> dp, freqAt |-> fq, vTmpl |-> tm, vLength |-> len])
b_DATA == Block("DATA", 12, BlockSize, <<>>)
b_Other(tag, jump) == Block(tag, 12, jump, <<>>)
Short(b) == [b EXCEPT !.bad = TRUE, !.used = 12]

\* the tags the block loop has a branch for
Recognized ==
  {"GCHd", "GD3D", "GD3A", "GD2D", "GD2A", "GD1D", "GD1A", "GDLg", "DsAx",
   "VARD", "DATA"}

\* the file offset of each block of the header h
layout(h) ==
  [o \in {SBEnd + (n - 1) * BlockSize : n \in 1..Len(h)} |->
     h[(o - SBEnd) \div BlockSize + 1]]

\* where the header h ends and the data region starts
endOf(h) == SBEnd + Len(h) * BlockSize

\* the starting block: ok is FALSE when it cannot be unpacked
StartingBlock(ok, fmt, ds, n) ==
  [ok |-> ok, fmtString |-> fmt, dataStart |-> ds, dataLen |-> DataLen, nPoints |-> n]

\* the time edits of the files opened here
OpenTimes == <<0, 2>>

\* the bytes of a file with header h: with a DATA block the data records
\* follow the header, without one the file ends with its last block
fileOf(h) ==
  IF \E n \in 1..Len(h) : h[n].type = "DATA"
    THEN MkFile(endOf(h), OpenTimes, 1)
    ELSE [p \in {4 * w : w \in 0..(endOf(h) \div 4 - 1)} |-> -5]

\* the outcome of one handler: the exception flag and the state it leaves
Handled(raised, comps, rl, cc, ct, att) ==
  [raised |-> raised, components |-> comps, recordLength |-> rl,
   currentComp |-> cc, currentTempl |-> ct, attached |-> att]

\* the component stored under the key (compID, compType.strip()), 0 if none
keyIndex(comps, id, ct) ==
  LET hits == {n \in DOMAIN comps : comps[n].number = id /\ comps[n].compType = ct}
  IN  IF hits = {} THEN 0 ELSE CHOOSE n \in hits : TRUE

\* the template object t as seen through every list it was appended to
rebind(comps, att, t) ==
  [n \in DOMAIN comps |->
     [comps[n] EXCEPT !.templates =
        [k \in DOMAIN comps[n].templates |->
           IF <<n, k>> \in att THEN t ELSE comps[n].templates[k]]]]

\* GD3A / GD2A / GD1A: fill the arrays of currentTempl, then append it to the
\* templates of currentComp
attach(comps, c, t) ==
  IF c.currentTempl = Unbound
    THEN Handled(TRUE, comps, c.recordLength, c.currentComp, c.currentTempl, c.attached)
  ELSE IF c.currentComp = 0
    THEN Handled(TRUE, rebind(comps, c.attached, t), c.recordLength, 0, t, c.attached)
  ELSE LET seen == rebind(comps, c.attached, t)
           cc == c.currentComp
       IN  Handled(FALSE,
                   [seen EXCEPT ![cc].templates = Append(@, t)],
                   c.recordLength, cc, t,
                   c.attached \cup {<<cc, Len(seen[cc].templates) + 1>>})

\* a counter that every declared variable advances
nextRecordLength_Always(rl, freqAt, vLength) == rl + vLength * 4

\* lines 387-388: if currentChannel.freqAt == "TD": recordLength += vLength * 4
nextRecordLength(rl, freqAt, vLength) ==
  IF freqAt = "TD" THEN rl + vLength * 4 ELSE rl

\* the body of the block loop for the block b, up to the set_position
handle(b, comps, c) ==
  LET rl == c.recordLength
      cc == c.currentComp
      ct == c.currentTempl
      att == c.attached
      same == Handled(FALSE, comps, rl, cc, ct, att)
      fail == Handled(TRUE, comps, rl, cc, ct, att)
  IN  IF b.bad /\ b.type \in Recognized \ {"DATA"} THEN fail
      ELSE CASE b.type = "GCHd" ->
                  LET new == [number |-> b.f.compID, compType |-> b.f.compType,
                              templates |-> <<NoTemplate>>, channels |-> <<>>,
                              sidelegs |-> <<>>, dynAxes |-> <<>>]
                      at == keyIndex(comps, b.f.compID, b.f.compType)
                  IN  IF at = 0
                        THEN Handled(FALSE, Append(comps, new), rl, Len(comps) + 1, ct, att)
                        ELSE Handled(FALSE, [comps EXCEPT ![at] = new], rl, at, ct,
                                     {p \in att : p[1] # at})
             [] b.type = "GD3D" ->
                  Handled(FALSE, comps, rl, cc,
                          Template3D(b.f.coordSys, b.f.nCellsI, b.f.nCellsJ, b.f.nCellsK, <<>>),
                          {})
             [] b.type = "GD3A" ->
                  attach(comps, c, IF ct = Unbound THEN ct
                                   ELSE [ct EXCEPT !.fI = b.f.fI, !.fJ = b.f.fJ, !.fK = b.f.fK])
             [] b.type = "GD2D" ->
                  Handled(FALSE, comps, rl, cc,
                          Template2D(b.f.coordSys, b.f.nCellsI, b.f.nCellsJ, <<>>), {})
             [] b.type = "GD2A" ->
                  attach(comps, c, IF ct = Unbound THEN ct
                                   ELSE [ct EXCEPT !.fI = b.f.fI, !.fJ = b.f.fJ])
             [] b.type = "GD1D" ->
                  Handled(FALSE, comps, rl, cc, Template1D(b.f.nCells, <<>>), {})
             [] b.type = "GD1A" ->
                  attach(comps, c, IF ct = Unbound THEN ct ELSE [ct EXCEPT !.fI = b.f.fI])
             [] b.type = "GDLg" ->
                  IF cc = 0 THEN fail
                  ELSE Handled(FALSE, [comps EXCEPT ![cc].sidelegs = Append(@, b.f)],
                               rl, cc, ct, att)
             [] b.type = "DsAx" ->
                  IF cc = 0 THEN fail
                  ELSE Handled(FALSE, [comps EXCEPT ![cc].dynAxes = Append(@, b.f)],
                               rl, cc, ct, att)
             [] b.type = "VARD" ->
                  IF cc = 0 THEN fail
                  ELSE LET ch == [name |-> b.f.varName, startIncrement |-> rl,
                                  dimPosAt |-> b.f.dimPosAt, freqAt |-> b.f.freqAt,
                                  vTmpl |-> b.f.vTmpl, vLength |-> b.f.vLength]
                           key == strip(b.f.varName)
                           old == comps[cc].channels
                       IN  Handled(FALSE,
                                   [comps EXCEPT ![cc].channels =
                                      [nm \in DOMAIN old \cup {key} |->
                                         IF nm = key THEN ch ELSE old[nm]]],
                                   nextRecordLength(rl, b.f.freqAt, b.f.vLength),
                                   cc, ct, att)
             [] OTHER -> same

\* the constructor was called with a file whose starting block is sb and
\* whose header blocks are h: nothing is assigned yet
Opening(sb, h) ==
  /\ components = <<>>
  /\ SB = NoSB
  /\ times = <<>>
  /\ xtvFile = fileOf(h)
  /\ pos = 0
  /\ opened = Unset
  /\ call = [op |-> "__init__", pc |-> "SB", sb |-> sb, blocks |-> layout(h),
             start |-> 0, jump |-> 0, recordLength |-> 24, currentComp |-> 0,
             currentTempl |-> Unbound, attached |-> {}, trail |-> <<>>,
             failed |-> FALSE]
  /\ result = NoResult

\* lines 197-207: unpack the starting block and test the format tag
ReadStartingBlock ==
  /\ call.op = "__init__" /\ call.pc = "SB"
  /\ UNCHANGED <<components, times, xtvFile, opened>>
  /\ IF ~call.sb.ok
       THEN /\ result' = Raise("AttributeError", <<>>)
            /\ call' = [call EXCEPT !.pc = "raised"]
            /\ UNCHANGED <<SB, pos>>
       ELSE /\ SB' = [dataStart |-> call.sb.dataStart, dataLen |-> call.sb.dataLen,
                      nPoints |-> call.sb.nPoints]
            /\ pos' = SBEnd
            /\ IF call.sb.fmtString # "MUX"
                 THEN /\ result' = Value(PyNone, <<>>)
                      /\ call' = [call EXCEPT !.pc = "returned"]
                 ELSE /\ result' = result
                      /\ call' = [call EXCEPT !.pc = "loop"]

\* the bare except of the block loop
Except(c) ==
  /\ opened' = "False"
  /\ call' = [c EXCEPT !.pc = "times", !.failed = TRUE]

\* the blocks read so far, kept for the first MaxTrail passes of the loop
MaxTrail == 32
logged(trail, entry) == IF Len(trail) < MaxTrail THEN Append(trail, entry) ELSE trail

\* the jump decoded from bytes that hold no block header
GarbageJump == BlockSize

\* lines 213-391: one pass of the loop body, from get_position() to the end of
\* the branch taken
ReadBlock ==
  /\ call.op = "__init__" /\ call.pc = "loop"
  /\ UNCHANGED <<SB, times, xtvFile, result>>
  /\ IF pos \notin DOMAIN xtvFile
       THEN /\ Except(call)
            /\ UNCHANGED <<components, pos>>
     ELSE IF pos \notin DOMAIN call.blocks
       THEN \/ /\ Except(call)
               /\ UNCHANGED <<components, pos>>
            \/ /\ call' = [call EXCEPT !.pc = "advance", !.start = pos,
                                       !.jump = GarbageJump,
                                       !.trail = logged(@, [start |-> pos, type |-> Unset,
                                                            jump |-> GarbageJump])]
               /\ pos' = pos + 12
               /\ UNCHANGED <<components, opened>>
     ELSE LET b == call.blocks[pos]
              seen == [call EXCEPT !.start = pos, !.jump = b.jump,
                                   !.trail = logged(@, [start |-> pos, type |-> b.type,
                                                        jump |-> b.jump])]
          IN  /\ pos' = pos + b.used
              /\ IF b.type = "DATA"
                   THEN /\ call' = [seen EXCEPT !.pc = "times"]
                        /\ UNCHANGED <<components, opened>>
                   ELSE \E h \in {handle(b, components, call)} :
                          /\ components' = h.components
                          /\ LET c == [seen EXCEPT !.recordLength = h.recordLength,
                                                   !.currentComp = h.currentComp,
                                                   !.currentTempl = h.currentTempl,
                                                   !.attached = h.attached]
                             IN  IF h.raised
                                   THEN Except(c)
                                   ELSE /\ call' = [c EXCEPT !.pc = "advance"]
                                        /\ opened' = opened

\* a loop that reads the next block header where the handler stopped
SeekNextBlock_Sequential ==
  /\ call.op = "__init__" /\ call.pc = "advance"
  /\ pos' = pos
  /\ call' = [call EXCEPT !.pc = "loop"]
  /\ UNCHANGED <<components, SB, times, xtvFile, opened, result>>

\* line 393: self.up.set_position(start+jump); file.seek raises IOError on a
\* negative offset, inside the try
SeekNextBlock ==
  /\ call.op = "__init__" /\ call.pc = "advance"
  /\ IF call.start + call.jump < 0
       THEN /\ Except(call)
            /\ pos' = pos
       ELSE /\ pos' = call.start + call.jump
            /\ call' = [call EXCEPT !.pc = "loop"]
            /\ opened' = opened
  /\ UNCHANGED <<components, SB, times, xtvFile, result>>

\* the time edits read with the record-length counter of the loop as stride
ReadTimes_CounterStride ==
  /\ call.op = "__init__" /\ call.pc = "times"
  /\ UNCHANGED <<components, SB, xtvFile>>
  /\ LET n == IF SB.nPoints > 0 THEN SB.nPoints ELSE 0
         reads == [i \in 1..n |->
                     unpack_float_at(SB.dataStart + (i - 1) * call.recordLength + 20)]
         g == gather(reads, <<>>)
         f == firstFailure(reads)
     IN  /\ pos' = CursorAfter(pos, g.seeks)
         /\ IF g.kind = "value"
              THEN /\ times' = g.val
                   /\ opened' = "True"
                   /\ result' = Value(PyNone, g.seeks)
                   /\ call' = [call EXCEPT !.pc = "returned"]
              ELSE /\ times' = [i \in 1..(f - 1) |-> reads[i].val]
                   /\ opened' = opened
                   /\ result' = g
                   /\ call' = [call EXCEPT !.pc = "raised"]

\* lines 401-405: the time of every record, then opened = True
ReadTimes ==
  /\ call.op = "__init__" /\ call.pc = "times"
  /\ UNCHANGED <<components, SB, xtvFile>>
  /\ LET n == IF SB.nPoints > 0 THEN SB.nPoints ELSE 0
         reads == [i \in 1..n |-> unpack_float_at(SB.dataStart + (i - 1) * SB.dataLen + 20)]
         g == gather(reads, <<>>)
         f == firstFailure(reads)
     IN  /\ pos' = CursorAfter(pos, g.seeks)
         /\ IF g.kind = "value"
              THEN /\ times' = g.val
                   /\ opened' = "True"
                   /\ result' = Value(PyNone, g.seeks)
                   /\ call' = [call EXCEPT !.pc = "returned"]
              ELSE /\ times' = [i \in 1..(f - 1) |-> reads[i].val]
                   /\ opened' = opened
                   /\ result' = g
                   /\ call' = [call EXCEPT !.pc = "raised"]

\* the headers opened: every sequence of up to MaxBlocks blocks of BlockKinds
BlockKinds ==
  { b_GCHd(55, "pipe"), b_GD1D(3), b_GD1A(<<0, 2, 4, 6>>),
    b_VARD(s_pn, d_1dCc, "TD", 1, 3), b_VARD(s_qout, d_0D, "TI", 1, 1),
    Short(b_VARD(s_vln, d_1dFa, "TD", 1, 4)),
    b_Other("JUNK", BlockSize), b_Other("JUNK", 2 * BlockSize), b_DATA }

Headers == UNION {[1..n -> BlockKinds] : n \in 0..MaxBlocks}

\* the header of the file the queries are checked on
RECURSIVE variablesOf(_, _)
variablesOf(c, n) ==
  IF n > Len(VarDecls) THEN <<>>
  ELSE (IF VarDecls[n].number = c.number /\ VarDecls[n].compType = c.compType
          THEN <<b_VARD(VarDecls[n].name, VarDecls[n].dimPosAt, VarDecls[n].freqAt,
                        VarDecls[n].vTmpl, VarDecls[n].vLength)>>
          ELSE <<>>) \o variablesOf(c, n + 1)

geometryOf(t) ==
  CASE t.name = "GD3D" -> <<b_GD3D(t.coordSys, t.dimi, t.dimj, t.dimk),
                            b_GD3A(t.fI, t.fJ, t.fK)>>
    [] t.name = "GD2D" -> <<b_GD2D(t.coordSys, t.dimi, t.dimj), b_GD2A(t.fI, t.fJ)>>
    [] OTHER -> <<b_GD1D(t.dimi), b_GD1A(t.fI)>>

RECURSIVE blocksOf(_)
blocksOf(n) ==
  IF n > Len(CompDecls) THEN <<b_DATA>>
  ELSE <<b_GCHd(CompDecls[n].number, CompDecls[n].compType)>>
         \o geometryOf(CompDecls[n].templates[2])
         \o variablesOf(CompDecls[n], 1)
         \o blocksOf(n + 1)

FixtureHeader == blocksOf(1)

\* headers with a side leg and a dynamic axis, with a variable that is not
\* time dependent between two that are, with a block before any
\* component, with a template attached twice
SampleHeaders ==
  { FixtureHeader,
    <<b_GCHd(55, "pipe"), b_GD1D(3), b_GD1A(<<0, 2, 4, 6>>), b_GDLg(1, 2, 3),
      b_DsAx(7), b_VARD(s_pn, d_1dCc, "TD", 1, 3), b_DATA>>,
    <<b_GCHd(55, "pipe"), b_VARD(s_pn, d_1dCc, "TD", 1, 3),
      b_VARD(s_qout, d_0D, "TI", 1, 1), b_VARD(s_vln, d_1dFa, "TD", 1, 4),
      b_GCHd(140, "htstr"), b_VARD(s_tsurfi, d_1dFa, "TD", 1, 3), b_DATA>>,
    <<b_GDLg(1, 2, 3), b_DATA>>,
    <<b_DsAx(7), b_DATA>>,
    <<b_GD2D("CYLRZ", 2, 2), b_GD2A(<<>>, <<0, 2, 4>>), b_DATA>>,
    <<b_GCHd(500, "vessel"), b_GD3A(<<>>, <<>>, <<0, 2, 4>>), b_DATA>>,
    <<b_GCHd(55, "pipe"), b_GD1D(3), b_GD1A(<<0, 2>>), b_GCHd(55, "pipe"),
      b_GD1A(<<0, 2, 4, 6>>), b_GD1A(<<0, 6>>), b_DATA>> }

\* the starting blocks opened with the first sample header: a foreign format
\* tag, a starting block that cannot be unpacked, more time edits announced
\* than the file holds, none announced
OtherStarts ==
  { StartingBlock(TRUE, "XTV", endOf(FixtureHeader), Len(OpenTimes)),
    StartingBlock(FALSE, "MUX", endOf(FixtureHeader), Len(OpenTimes)),
    StartingBlock(TRUE, "MUX", endOf(FixtureHeader), Len(OpenTimes) + 1),
    StartingBlock(TRUE, "MUX", endOf(FixtureHeader), 0) }

InitOpen ==
  \/ \E h \in Headers \cup SampleHeaders :
       Opening(StartingBlock(TRUE, "MUX", endOf(h), Len(OpenTimes)), h)
  \/ \E sb \in OtherStarts : Opening(sb, FixtureHeader)

NextOpen == ReadStartingBlock \/ ReadBlock \/ SeekNextBlock \/ ReadTimes

SpecOpen == InitOpen /\ [][NextOpen]_vars

\* the constructor is over
Returned == call.op = "__init__" /\ call.pc = "returned"
Raised == call.op = "__init__" /\ call.pc = "raised"

\* reading the header of the fixture leaves the state the queries start from
OpenFixture ==
  (Returned /\ call.blocks = layout(FixtureHeader) /\ call.sb.fmtString = "MUX"
     /\ call.sb.nPoints = Len(OpenTimes))
    => /\ components = ParsedComponents
       /\ times = OpenTimes
       /\ opened = "True"
       /\ SB = [dataStart |-> endOf(FixtureHeader), dataLen |-> DataLen,
                nPoints |-> Len(OpenTimes)]


(***************************************************************************)
(* Claims about the constructor                                            *)
(***************************************************************************)

\* C14: when the decoding of a header block raised, the constructor returns
\* without an exception and opened reads false afterwards
C14_Original ==
  ((Returned \/ Raised) /\ call.failed) => (Returned /\ opened = "False")

\* what the bare except does establish: opened is false when the loop is
\* left through it, until the time edits are read
C14_Caught ==
  (call.op = "__init__" /\ call.pc = "times" /\ call.failed) => opened = "False"

\* the format tag of the starting block is not the expected one
Mismatch == call.op = "__init__" /\ call.sb.ok /\ call.sb.fmtString # "MUX"

\* C15: opening a file with a foreign format tag ends in an exception or with
\* opened reading false, no block is parsed and no time index is built
C15_Original ==
  ((Returned \/ Raised) /\ Mismatch)
    => /\ Raised \/ opened = "False"
       /\ call.trail = <<>> /\ components = <<>> /\ times = <<>>

\* the part that holds: nothing is parsed from such a file
C15_NothingParsed ==
  ((Returned \/ Raised) /\ Mismatch)
    => call.trail = <<>> /\ components = <<>> /\ times = <<>>


(***************************************************************************)
(* Claims about every query                                                *)
(***************************************************************************)

\* the cursor the constructor leaves: after the time of the last record
CursorAfterOpen == SB.dataStart + (Len(times) - 1) * SB.dataLen + 24

\* C16: no query, whether it returns or raises, changes the starting block,
\* the component table (templates, side legs, dynamic axes and channel
\* descriptors included) or the time index; only the cursor moves
C16_ReadOnly ==
  [][components' = components /\ SB' = SB /\ times' = times]_vars

\* a query that failed after it had moved the cursor
C16_Witness ==
  /\ call # Idle /\ call.op = "getAxialVector"
  /\ result.kind \notin {"value", "none"}
  /\ pos # CursorAfterOpen
  /\ components = ParsedComponents


(***************************************************************************)
(* Claims about the bulk operations                                        *)
(***************************************************************************)

\* getAxialData at every entry of the time index, in order, for the channel
\* and axial location of the getTimeVectorAxial call in flight
PointByPoint ==
  LET d == decode_channel(call.channel)
  IN  [n \in 1..Len(times) |->
         getAxialData(times[n], d.id, d.compType, d.varName, call.zLoc, d.r, d.t)]

\* C17: getTimeVectorAxial(channel, zLoc) ends as the iteration of
\* getAxialData over the time index does: the same (time, value) pairs, or
\* the error kind of the first failing point
C17_Original ==
  call.op = "getTimeVectorAxial" =>
    LET f == firstFailure(PointByPoint)
    IN  IF f = 0
          THEN /\ result.kind = "value"
               /\ result.val = [n \in 1..Len(times) |-> <<times[n], PointByPoint[n].val>>]
          ELSE result.kind = PointByPoint[f].kind


\* the call in flight returned one entry per point, in order, each the value
\* of the single-point query each[n] (paired with label[n]), or raised the
\* error of the first single-point query that fails
PerPoint(each, entry(_)) ==
  LET f == firstFailure(each)
  IN  IF f = 0
        THEN /\ result.kind = "value"
             /\ result.val = [n \in 1..Len(each) |-> entry(n)]
        ELSE result.kind = each[f].kind

\* the single-point queries of a bulk call
TimeDataPoints ==
  [n \in 1..Len(call.times) |->
     getData(call.times[n], call.id, call.compType, call.varName,
             call.i, call.j, call.k)]
TimeVectorPoints == [n \in 1..Len(times) |-> getDataChannel(times[n], call.channel)]
AxialVectorPoints(zLocs) ==
  LET d == decode_channel(call.channel)
  IN  [n \in 1..Len(zLocs) |->
         getAxialData(call.time, d.id, d.compType, d.varName, zLocs[n], d.r, d.t)]

\* the axial locations of the channel of a getAxialVector call at the time t
LocationsAt(t) ==
  LET d == decode_channel(call.channel)
  IN  getAxialLocations(t, d.id, d.compType, d.varName)

\* getAxialVector returned one pair per axial location found at the time t,
\* or raised the error of the first failing location (of the lookup of the
\* locations, when the channel has none)
AxialPerPoint(t) ==
  IF LocationsAt(t).kind # "value"
    THEN result.kind = LocationsAt(t).kind
    ELSE PerPoint(AxialVectorPoints(LocationsAt(t).val),
                  LAMBDA n : <<LocationsAt(t).val[n],
                               AxialVectorPoints(LocationsAt(t).val)[n].val>>)

Threads == {1, 2}

\* the queries each caller issues, one after the other
MaxQueries == 2

\* the getData calls issued: an exact time, a time between two edits, a time
\* after the last edit, the last word of the file
ThreadQueries ==
  { <<0, 55, "pipe", s_pn, 1, 0, 0>>,
    <<1, 500, "vessel", s_pn, 1, 1, 1>>,
    <<3, 55, "pipe", s_pn, 2, 0, 0>>,
    <<2, 140, "htstrc", s_tsurfo, 3, 0, 0>> }

\* a caller that has issued nothing
IdleThread ==
  [phase |-> "idle", q |-> <<>>, plan |-> <<>>, got |-> <<>>, readAt |-> <<>>,
   mixed |-> FALSE, out |-> NoResult, served |-> 0]

threads == IF call = Idle THEN [t \in Threads |-> IdleThread] ELSE call.th

\* the query q run with the decoder to itself
sequential(q) == getData(q[1], q[2], q[3], q[4], q[5], q[6], q[7])

\* the offsets of the set_position calls of the query q, which depend on the
\* header and the arguments only
planOf(q) == [n \in 1..Len(sequential(q).seeks) |-> sequential(q).seeks[n].at]

\* the return value of getData from the floats it decoded
valueOf(q, plan, got) ==
  LET t == timeLatch(q[1]).val
      startingEdit == bisect_right(times, t)
      sk == [n \in 1..Len(plan) |-> Seek(plan[n], 1)]
  IN  IF Len(plan) = 1
        THEN Value(F(got[1]), sk)
        ELSE Value(interpolate(timeAt(startingEdit - 1), F(got[1]),
                               timeAt(startingEdit), F(got[2]), t), sk)

\* the other callers after the caller t moved the cursor: whoever sits between
\* a seek and its decode no longer has the cursor where it put it
disturb(th, t) ==
  [u \in Threads |->
     IF u # t /\ th[u].phase = "decode" THEN [th[u] EXCEPT !.mixed = TRUE] ELSE th[u]]

\* getData up to its first set_position: the argument and time checks
Begin(t) ==
  /\ threads[t].phase \in {"idle", "done"}
  /\ threads[t].served < MaxQueries
  /\ \E q \in ThreadQueries :
       LET me == [threads[t] EXCEPT !.q = q, !.plan = planOf(q), !.got = <<>>,
                                    !.readAt = <<>>, !.mixed = FALSE]
       IN  IF planOf(q) = <<>>
             THEN /\ call' = [op |-> "threads",
                              th |-> [threads EXCEPT ![t] =
                                        [me EXCEPT !.phase = "done",
                                                   !.out = sequential(q),
                                                   !.served = @ + 1]]]
                  /\ result' = sequential(q)
             ELSE /\ call' = [op |-> "threads",
                              th |-> [threads EXCEPT ![t] =
                                        [me EXCEPT !.phase = "seek", !.out = NoResult]]]
                  /\ result' = result
  /\ UNCHANGED <<pos, header>>

\* a set_position that leaves the cursor where it is
SeekStep_NoOp(t) ==
  /\ call # Idle /\ threads[t].phase = "seek"
  /\ pos' = pos
  /\ call' = [call EXCEPT !.th = [disturb(threads, t) EXCEPT ![t].phase = "decode"]]
  /\ UNCHANGED <<result, header>>

\* self.up.set_position(offset): the next seek of the query of caller t
SeekStep(t) ==
  /\ call # Idle /\ threads[t].phase = "seek"
  /\ pos' = threads[t].plan[Len(threads[t].got) + 1]
  /\ call' = [call EXCEPT !.th = [disturb(threads, t) EXCEPT ![t].phase = "decode"]]
  /\ UNCHANGED <<result, header>>

\* self.up.unpack_float(): four bytes at the cursor, wherever it is; after
\* the last decode the query returns
DecodeStep(t) ==
  /\ call # Idle /\ threads[t].phase = "decode"
  /\ LET me == threads[t]
         got == Append(me.got, xtvFile[pos])
     IN  IF pos \notin DOMAIN xtvFile
           THEN \E r \in {Raise("EOFError", <<>>)} :
                  /\ call' = [call EXCEPT !.th =
                                [disturb(threads, t) EXCEPT ![t] =
                                   [me EXCEPT !.phase = "done", !.out = r,
                                              !.served = @ + 1]]]
                  /\ result' = r
                  /\ pos' = pos
         ELSE IF Len(got) < Len(me.plan)
           THEN /\ call' = [call EXCEPT !.th =
                              [disturb(threads, t) EXCEPT ![t] =
                                 [me EXCEPT !.phase = "seek", !.got = got,
                                            !.readAt = Append(@, pos)]]]
                /\ result' = result
                /\ pos' = pos + 4
         ELSE \E r \in {valueOf(me.q, me.plan, got)} :
                /\ call' = [call EXCEPT !.th =
                              [disturb(threads, t) EXCEPT ![t] =
                                 [me EXCEPT !.phase = "done", !.got = got,
                                            !.readAt = Append(@, pos), !.out = r,
                                            !.served = @ + 1]]]
                /\ result' = r
                /\ pos' = pos + 4
  /\ UNCHANGED header

InitThreads == Constructed(<<0, 2>>, 1)

NextThreads == \E t \in Threads : Begin(t) \/ SeekStep(t) \/ DecodeStep(t)

SpecThreads == InitThreads /\ [][NextThreads]_vars

\* C19: a query whose seeks and decodes no other caller separates reads at
\* the offsets of its own seeks, whatever the cursor was before, and returns
\* what it returns with the decoder to itself
C19_OneAtATime ==
  \A t \in Threads :
    ~threads[t].mixed =>
      /\ threads[t].readAt = SubSeq(threads[t].plan, 1, Len(threads[t].readAt))
      /\ threads[t].phase = "done" =>
           /\ threads[t].readAt = threads[t].plan
           /\ threads[t].out.kind = sequential(threads[t].q).kind
           /\ threads[t].out.val = sequential(threads[t].q).val

\* interleaved: caller 1 seeks, caller 2 seeks, caller 1 decodes at the offset
\* of caller 2 and returns the value stored there
C19_Witness ==
  /\ call # Idle
  /\ threads[1].phase = "done" /\ threads[1].mixed
  /\ threads[1].q = <<0, 55, "pipe", s_pn, 1, 0, 0>>
  /\ threads[2].q = <<1, 500, "vessel", s_pn, 1, 1, 1>>
  /\ threads[1].readAt = <<threads[2].plan[1]>>
  /\ threads[1].readAt # threads[1].plan
  /\ threads[1].out.kind = "value"
  /\ threads[1].out.val = F(xtvFile[threads[2].plan[1]])
  /\ threads[1].out.val # sequential(threads[1].q).val


(***************************************************************************)
(* Claims about the block loop                                             *)
(***************************************************************************)

\* the block headers read so far, in reading order
Trail == call.trail

\* every block header but the first is read at the start of the block before
\* it plus that block's jump, and so will the next one be
ChainedByJump ==
  /\ \A n \in 1..(Len(Trail) - 1) : Trail[n + 1].start = Trail[n].start + Trail[n].jump
  /\ (call.pc = "loop" /\ Trail # <<>>)
       => pos = Trail[Len(Trail)].start + Trail[Len(Trail)].jump

\* a DATA block is the last block read, and the loop is over once it is read
StopsAtData ==
  /\ \A n \in 1..(Len(Trail) - 1) : Trail[n].type # "DATA"
  /\ (Trail # <<>> /\ Trail[Len(Trail)].type = "DATA")
       => call.pc \notin {"loop", "advance"}

\* a pass of the loop over a block whose tag has no branch leaves the
\* components and the running record length as they were
UnknownIsSkipped ==
  (call.pc = "loop" /\ call'.pc = "advance"
     /\ call'.trail[Len(call'.trail)].type \notin Recognized)
    => components' = components /\ call'.recordLength = call.recordLength

\* C20: in the block loop the next block header is read at block_start + jump
\* whatever the handler consumed, a block with an unrecognized tag changes
\* neither the components nor the running record length, and nothing is read
\* after the first DATA block
C20_BlockLoop ==
  /\ [](call.op = "__init__" => ChainedByJump /\ StopsAtData)
  /\ [][call.op = "__init__" => UnknownIsSkipped]_vars

\* a file whose first block has an unknown tag, 12 bytes decoded and a jump
\* over the block behind it, which lands on a DATA block that is followed by
\* a component block: two headers read, nothing parsed
C20_Witness ==
  /\ Returned
  /\ Len(Trail) = 2
  /\ Trail[1] = [start |-> SBEnd, type |-> "JUNK", jump |-> 2 * BlockSize]
  /\ Trail[2] = [start |-> SBEnd + 2 * BlockSize, type |-> "DATA", jump |-> BlockSize]
  /\ call.blocks[SBEnd].used # call.blocks[SBEnd].jump
  /\ SBEnd + 3 * BlockSize \in DOMAIN call.blocks
  /\ call.blocks[SBEnd + 3 * BlockSize].type = "GCHd"
  /\ components = <<>> /\ call.recordLength = 24


(***************************************************************************)
(* Claims about the parsed header                                          *)
(***************************************************************************)

\* the block whose header was the n-th one read
Decl(n) == call.blocks[Trail[n].start]

\* the n-th block read is a component header, a variable declaration
IsComp(n) == Trail[n].type = "GCHd" /\ ~Decl(n).bad
IsVar(n) == Trail[n].type = "VARD" /\ ~Decl(n).bad

\* the elements of the time-dependent variables among the first n blocks read
RECURSIVE DeclaredLength(_)
DeclaredLength(n) ==
  IF n = 0 THEN 0
  ELSE DeclaredLength(n - 1)
         + (IF IsVar(n) /\ Decl(n).f.freqAt = "TD" THEN Decl(n).f.vLength ELSE 0)

\* the component header in force when the n-th block was read, 0 if none
OwnerAt(n) ==
  LET before == {m \in 1..(n - 1) : IsComp(m)}
  IN  IF before = {} THEN 0 ELSE CHOOSE m \in before : \A l \in before : l <= m

\* the component header that created the component stored at index ci
CreatorOf(ci) ==
  LET mine == {m \in 1..Len(Trail) :
                 /\ IsComp(m)
                 /\ Decl(m).f.compID = components[ci].number
                 /\ Decl(m).f.compType = components[ci].compType}
  IN  IF mine = {} THEN 0 ELSE CHOOSE m \in mine : \A l \in mine : l <= m

\* the declarations of the name nm under the component stored at index ci
DeclsOf(ci, nm) ==
  {n \in 1..Len(Trail) :
     IsVar(n) /\ OwnerAt(n) = CreatorOf(ci) /\ strip(Decl(n).f.varName) = nm}

\* the channels of the table, and the bytes of a record one of them covers
ChannelKeys ==
  UNION {{<<ci, nm>> : nm \in DOMAIN components[ci].channels} : ci \in DOMAIN components}
ChannelAt(x) == components[x[1]].channels[x[2]]
SliceOf(ch) ==
  {b \in 0..(ch.startIncrement + 4 * ch.vLength) : b >= ch.startIncrement
                                                  /\ b < ch.startIncrement + 4 * ch.vLength}

\* the loop over the header blocks is over
Parsed == call.op = "__init__" /\ call.pc \in {"times", "returned", "raised"}

\* C21: every channel starts at 24 plus 4 bytes per element of the
\* time-dependent variables declared before it in the file, a variable that
\* is not time dependent adds nothing, and the slices of two time-dependent
\* channels do not overlap
C21_StartIncrement ==
  Parsed =>
    /\ \A x \in ChannelKeys :
         /\ DeclsOf(x[1], x[2]) # {}
         /\ LET n == CHOOSE n \in DeclsOf(x[1], x[2]) :
                       \A m \in DeclsOf(x[1], x[2]) : m <= n
            IN  /\ ChannelAt(x).startIncrement = 24 + 4 * DeclaredLength(n - 1)
                /\ ChannelAt(x).vLength = Decl(n).f.vLength
                /\ ChannelAt(x).freqAt = Decl(n).f.freqAt
    /\ \A x, y \in ChannelKeys :
         (x # y /\ ChannelAt(x).freqAt = "TD" /\ ChannelAt(y).freqAt = "TD")
           => SliceOf(ChannelAt(x)) \cap SliceOf(ChannelAt(y)) = {}

\* pn (3 elements), qout (not time dependent), vln, then tsurfi of the next
\* component: 24, 36, 36 and 52
C21_Witness ==
  /\ Returned
  /\ Len(components) = 2
  /\ components[1].channels[s_pn].startIncrement = 24
  /\ components[1].channels[s_qout].startIncrement = 36
  /\ components[1].channels[s_qout].freqAt # "TD"
  /\ components[1].channels[s_vln].startIncrement = 36
  /\ components[2].channels[s_tsurfi].startIncrement = 52


(***************************************************************************)
(* A query on the object the constructor returned                          *)
(***************************************************************************)

\* the index triples of the getData calls made on a freshly opened file
ServeIndices == {<<1, 0, 0>>, <<2, 0, 0>>, <<1, 1, 1>>}

\* getData on the object just constructed; the call keeps the value the
\* record-length counter had when the block loop ended
Serve ==
  /\ Returned /\ opened = "True"
  /\ \E time \in TimeReqs, x \in Declared, ijk \in ServeIndices :
       \E r \in {getData(time, x[1], x[2], x[3], ijk[1], ijk[2], ijk[3])} :
           /\ call' = [op |-> "getData", time |-> time, id |-> x[1],
                       compType |-> x[2], varName |-> x[3],
                       i |-> ijk[1], j |-> ijk[2], k |-> ijk[3],
                       recordLength |-> call.recordLength]
           /\ result' = r
           /\ pos' = CursorAfter(pos, r.seeks)
  /\ UNCHANGED header

NextServe == NextOpen \/ Serve

SpecServe == InitOpen /\ [][NextServe]_vars

\* the constructor has read the time edits, a getData call has interpolated
TimesBuilt == Returned /\ call.sb.fmtString = "MUX"
Interpolated == call.op = "getData" /\ Len(result.seeks) = 2

\* consecutive seeks of the call that just ended are d bytes apart
StrideIs(d) ==
  \A n \in 1..(Len(result.seeks) - 1) : result.seeks[n + 1].at - result.seeks[n].at = d

\* C22: the offsets of the time edits and of the two records of an
\* interpolating query are one accumulated record length apart
C22_Original ==
  (TimesBuilt \/ Interpolated) => StrideIs(call.recordLength)

\* C22 as the code has it: they are SB.dataLen apart
C22_DataLen ==
  (TimesBuilt \/ Interpolated) => StrideIs(SB.dataLen)

\* a file of two records of 336 bytes whose header declares 36 bytes: the
\* time edits are read 336 bytes apart
C22_Witness ==
  /\ TimesBuilt
  /\ Len(result.seeks) = 2
  /\ call.recordLength = 36 /\ SB.dataLen = DataLen
  /\ result.seeks[2].at - result.seeks[1].at = DataLen


(***************************************************************************)
(* Claims about the cell index                                             *)
(***************************************************************************)

\* the channel and the template of the getData call in flight
DataComp == compGet(call.id, call.compType)
DataChannel == DataComp.channels[call.varName]
DataTemplate == DataComp.templates[DataChannel.vTmpl + 1]

\* the length of a row and of a level of a 3D variable
RowLen(dp, t) == IF endswith(dp, "I") THEN t.dimi + 1 ELSE t.dimi
LevDim(dp, t) ==
  IF endswith(dp, "I") THEN (t.dimi + 1) * t.dimj
  ELSE IF endswith(dp, "J") /\ t.coordSys # "CYL3D" THEN t.dimi * (t.dimj + 1)
  ELSE t.dimi * t.dimj
Cell3D(dp, t, i, j, k) == (k - 1) * LevDim(dp, t) + (j - 1) * RowLen(dp, t) + i

\* the declared 3D channels, each with its template, and the triples accepted
Channels3D ==
  {x \in Declared : startswith(compGet(x[1], x[2]).channels[x[3]].dimPosAt, "3")}
Triples(x) ==
  LET e == Extents(compGet(x[1], x[2]), compGet(x[1], x[2]).channels[x[3]])
  IN  (1..e[1]) \X (1..e[2]) \X (1..e[3])

\* the in-record byte offset of the first decode of the call
DecodedAt == (result.seeks[1].at - SB.dataStart) % SB.dataLen

\* C23: the value of a 3D variable is decoded at cell
\* (k-1)*levdim + (j-1)*rowlen + i, with rowlen and levdim by face, and on
\* the triples within the extents the cell index is injective
C23_CellIndex ==
  /\ (call.op = "getData" /\ result.kind = "value"
        /\ startswith(DataChannel.dimPosAt, "3")
        /\ call.i >= 1 /\ call.j >= 1 /\ call.k >= 1)
       => DecodedAt = DataChannel.startIncrement
                        + 4 * (Cell3D(DataChannel.dimPosAt, DataTemplate,
                                      call.i, call.j, call.k) - 1)
  /\ \A x \in Channels3D :
       LET ch == compGet(x[1], x[2]).channels[x[3]]
           t == compGet(x[1], x[2]).templates[ch.vTmpl + 1]
       IN  \A p, q \in Triples(x) :
             Cell3D(ch.dimPosAt, t, p[1], p[2], p[3])
               = Cell3D(ch.dimPosAt, t, q[1], q[2], q[3]) => p = q

\* the J-face variable of the CART3D vessel at (2, 3, 2): row length 2,
\* level 2 * 3, cell 12
C23_Witness ==
  /\ call.op = "getData" /\ result.kind = "value"
  /\ call.id = 510 /\ call.varName = s_vlnyt
  /\ call.i = 2 /\ call.j = 3 /\ call.k = 2
  /\ DataTemplate.coordSys = "CART3D"
  /\ DecodedAt = DataChannel.startIncrement + 4 * 11


\* the indices the variable of the getData call needs, in the order i, j, k
Required ==
  LET dp == DataChannel.dimPosAt
  IN  IF startswith(dp, "3") THEN <<call.i, call.j, call.k>>
      ELSE IF startswith(dp, "2") THEN <<call.i, call.j>>
      ELSE IF startswith(dp, "1") THEN <<call.i>>
      ELSE <<>>

Absent(x) == x = PyNone \/ x = 0
LowerBoundErrors == <<"INDEX_I_LBOUND_ERR", "INDEX_J_LBOUND_ERR", "INDEX_K_LBOUND_ERR">>

\* a getData call on a declared channel with a required index 0 or absent
MissingIndex ==
  /\ call.op = "getData"
  /\ IsDeclared(<<call.id, call.compType, call.varName>>)
  /\ \E n \in 1..Len(Required) : Absent(Required[n])

\* the first required index that is 0 or absent
FirstMissing ==
  CHOOSE n \in 1..Len(Required) :
    Absent(Required[n]) /\ \A m \in 1..(n - 1) : ~Absent(Required[m])

----------------------------------------------------------------------------
(* Claims about the fine-mesh locations *)

\* getAxialLocations on every file and every fine-mesh pattern
SpecLocations == InitAxial /\ [][GetAxialLocations]_vars

\* the record with the largest time at or before t
RecordAt(t) ==
  CHOOSE r \in 1..Len(times) :
    times[r] <= t /\ \A q \in (r + 1)..Len(times) : times[q] > t

\* the zht array stored in record r (1-based), as the file holds it
StoredZht(r) ==
  LET ch == components[5].channels[s_zht]
  IN  [n \in 1..ch.vLength |->
         xtvFile[SB.dataStart + (r - 1) * SB.dataLen + ch.startIncrement + 4 * (n - 1)]]

HasSentinel(zht) == \E n \in 1..Len(zht) : zht[n] = -1

\* the entries before the first -1, all of them when there is none
UpToSentinel(zht) ==
  IF HasSentinel(zht)
    THEN SubSeq(zht, 1, (CHOOSE n \in 1..Len(zht) :
                           zht[n] = -1 /\ \A m \in 1..(n - 1) : zht[m] # -1) - 1)
    ELSE zht

\* getAxialLocations on a fine-mesh variable of the htstrc component at a time
\* within the time index
FineMeshLookup ==
  /\ call.op = "getAxialLocations"
  /\ call.compType = "htstrc" /\ call.id = 140
  /\ call.varName \in fineMeshVars
  /\ times[1] <= call.time /\ call.time <= times[Len(times)]

\* C25: the fine-mesh locations are the stored zht array of the record at or
\* before the time, up to the first -1, and the whole array when it has no -1
C25_Original ==
  FineMeshLookup =>
    /\ result.kind = "value"
    /\ result.val = UpToSentinel(StoredZht(RecordAt(call.time)))

\* C25 for the stored arrays that hold a -1; without one the lookup raises
C25_WithSentinel ==
  FineMeshLookup =>
    IF HasSentinel(StoredZht(RecordAt(call.time)))
      THEN /\ result.kind = "value"
           /\ result.val = UpToSentinel(StoredZht(RecordAt(call.time)))
      ELSE result.kind = "ValueError"

C25_Full ==
  /\ FineMeshLookup
  /\ ~HasSentinel(StoredZht(RecordAt(call.time)))


----------------------------------------------------------------------------
(* Termination of the block loop *)

\* a block whose declared size is j
Sized(b, j) == [b EXCEPT !.jump = j]

\* blocks with a declared size of zero, or negative: the seek of line 393 then
\* goes to the block just read, to an earlier block, or before the file
LoopKinds ==
  { b_GCHd(55, "pipe"), Sized(b_GCHd(55, "pipe"), 0),
    b_Other("JUNK", BlockSize), b_Other("JUNK", 0), b_Other("JUNK", 0 - BlockSize),
    b_Other("JUNK", 0 - 2 * BlockSize), b_DATA }

LoopHeaders == UNION {[1..n -> LoopKinds] : n \in 0..MaxBlocks}

InitLoop ==
  \/ InitOpen
  \/ \E h \in LoopHeaders :
       Opening(StartingBlock(TRUE, "MUX", endOf(h), Len(OpenTimes)), h)

\* the constructor runs in one thread of control and keeps running: a step
\* that can be taken is taken
SpecLoop == InitLoop /\ [][NextOpen]_vars /\ WF_vars(NextOpen)

LoopEntered == call.op = "__init__" /\ call.pc = "loop"
LoopLeft == call.op = "__init__" /\ call.pc \in {"returned", "raised"}

\* every block of the header declares a size above zero
Forward == \A o \in DOMAIN call.blocks : call.blocks[o].jump > 0

\* C26: whatever the tags and the declared sizes, zero and negative included,
\* the block loop is left, at the DATA block or at a decode failure, and the
\* time index is built
C26_Original == LoopEntered ~> LoopLeft

\* C26 for the headers whose blocks all declare a size above zero
C26_Forward == (LoopEntered /\ Forward) ~> LoopLeft

\* a block of size zero was read a second time at the same offset
C26_Reread ==
  \E n \in 1..Len(Trail) :
    /\ n > 1 /\ Trail[n].start = Trail[n - 1].start /\ Trail[n].jump = 0
    /\ Trail[n].type # Unset


----------------------------------------------------------------------------
(* Claims about the bytes a query reads *)

\* the first decode of the call lies in the slice of its channel, in some
\* time record of the file
InOwnSlice ==
  \E r \in 0..(SB.nPoints - 1) :
    LET from == SB.dataStart + r * SB.dataLen + DataChannel.startIncrement
    IN  /\ result.seeks[1].at >= from
        /\ result.seeks[1].at < from + 4 * DataChannel.vLength

\* a getData call on a declared channel that passed the index checks and
\* decoded
Accepted ==
  /\ call.op = "getData"
  /\ IsDeclared(<<call.id, call.compType, call.varName>>)
  /\ Len(result.seeks) > 0

\* C27: whatever indices getData accepts, negative ones included, the bytes
\* decoded lie inside the slice of the channel asked for
C27_Original == Accepted => InOwnSlice

\* C27 for required indices from 1 up
C27_FromOne ==
  (Accepted /\ \A n \in 1..Len(Required) : Required[n] >= 1) => InOwnSlice

\* a negative index was accepted and the decode left the slice
C27_Negative ==
  /\ Accepted /\ result.kind = "value"
  /\ \E n \in 1..Len(Required) : Required[n] < 0 /\ Required[n] # PyNone
  /\ ~InOwnSlice


----------------------------------------------------------------------------
(* Claims about the time vector *)

\* the in-record byte offset the call decoded at, and the word record r
\* (1-based) holds there
VectorOffset == (result.seeks[1].at - SB.dataStart) % SB.dataLen
RawAt(r) == F(xtvFile[SB.dataStart + (r - 1) * SB.dataLen + VectorOffset])

VectorReturned ==
  /\ call.op = "getTimeVector" /\ result.kind = "value" /\ Len(result.seeks) > 0

\* the time index has no negative and no repeated time
PlainTimes ==
  /\ \A r \in 1..Len(times) : times[r] >= 0
  /\ \A r \in 1..(Len(times) - 1) : times[r] < times[r + 1]

\* C28: the r-th pair of getTimeVector is the time of record r with the raw
\* value of record r, whatever times the records carry
C28_Original ==
  VectorReturned =>
    /\ Len(result.val) = Len(times)
    /\ \A r \in 1..Len(times) : result.val[r] = <<times[r], RawAt(r)>>

\* C28 on a time index of increasing times from 0 up
C28_PlainTimes ==
  (VectorReturned /\ PlainTimes) =>
    /\ Len(result.val) = Len(times)
    /\ \A r \in 1..Len(times) : result.val[r] = <<times[r], RawAt(r)>>

\* a pair that carries the value of a later record
C28_LaterRecord ==
  /\ VectorReturned
  /\ \E r \in 1..Len(times), q \in 1..Len(times) :
       q > r /\ result.val[r] = <<times[r], RawAt(q)>> /\ RawAt(q) # RawAt(r)


\* the public queries
PublicQueries ==
  {"getData", "getAxialData", "getAxialLocations", "getAxialVector",
   "getTimeVector", "getTimeVectorAxial"}

\* the offset lies in one of the time records of the file
InDataRegion(at) ==
  /\ at >= SB.dataStart
  /\ at < SB.dataStart + SB.nPoints * SB.dataLen

\* C29: every seek of a public query, at any requested time, goes to a time
\* record 0..nPoints-1 of the data region, never before dataStart
C29_Original ==
  call.op \in PublicQueries =>
    \A n \in 1..Len(result.seeks) : InDataRegion(result.seeks[n].at)

\* C29 for getData called with indices from 1 up: the time is latched or
\* rejected before the seek
C29_GetData ==
  (call.op = "getData" /\ call.i >= 1 /\ call.j >= 0 /\ call.k >= 0) =>
    \A n \in 1..Len(result.seeks) : InDataRegion(result.seeks[n].at)

\* the fine-mesh lookup at a time before the first edit seeks into the header
C29_HeaderRead ==
  /\ call.op = "getAxialLocations"
  /\ call.time < times[1]
  /\ Len(result.seeks) > 0
  /\ result.seeks[1].at < SB.dataStart


----------------------------------------------------------------------------
(* Claims about the template lists *)

GeometryTags == {"GD1D", "GD2D", "GD3D"}

\* the pass of the loop that read the header block of component n, as it is
\* stored now: the last GCHd block with its key
HeaderPass(n) ==
  LET hits == {a \in 1..Len(Trail) :
                 /\ Trail[a].type = "GCHd"
                 /\ call.blocks[Trail[a].start].f.compID = components[n].number
                 /\ call.blocks[Trail[a].start].f.compType = components[n].compType}
  IN  CHOOSE a \in hits : \A b \in hits : b <= a

\* the passes that read a geometry block after the header block of component
\* n and before the next component header
DeclaredFor(n) ==
  {d \in (HeaderPass(n) + 1)..Len(Trail) :
     /\ Trail[d].type \in GeometryTags
     /\ \A a \in (HeaderPass(n) + 1)..d : Trail[a].type # "GCHd"}

\* the k-th smallest element of a set of numbers
RECURSIVE Nth(_, _)
Nth(passes, k) ==
  LET least == CHOOSE x \in passes : \A y \in passes : x <= y
  IN  IF k = 1 THEN least ELSE Nth(passes \ {least}, k - 1)

PlaceholderFirst ==
  \A n \in DOMAIN components :
    /\ Len(components[n].templates) >= 1
    /\ components[n].templates[1] = NoTemplate

\* C30: index 0 of every template list is the placeholder; the entries from
\* index 1 are the templates declared by the geometry blocks read between the
\* component's header and the next component header, in that order, each
\* once; no template object is in a list twice or in the list of another
\* component
C30_Original ==
  /\ PlaceholderFirst
  /\ \A n \in DOMAIN components :
       LET ts == components[n].templates
       IN  /\ Len(ts) - 1 <= Cardinality(DeclaredFor(n))
           /\ \A k \in 2..Len(ts) :
                /\ ts[k] # NoTemplate
                /\ ts[k].name = Trail[Nth(DeclaredFor(n), k - 1)].type
  /\ \A p, q \in call.attached : p[1] = q[1] => p = q

\* C30, the placeholder alone
C30_Placeholder == PlaceholderFirst

\* one template object sits at two indices of one list
C30_Twice ==
  /\ Parsed
  /\ \E p, q \in call.attached : p[1] = q[1] /\ p[2] # q[2]

\* a component holds a template although no geometry block was read since its
\* header
C30_Foreign ==
  /\ Parsed
  /\ \E n \in DOMAIN components :
       Len(components[n].templates) > 1 /\ DeclaredFor(n) = {}

====
